---- MODULE Spec2Model ----
(***************************************************************************)
(* The completion visitor of src/src/language/visitor.ts.                  *)
(*                                                                         *)
(* A text is a sequence of one-character strings.  A completion request    *)
(* splices PLACEHOLDER into the text at the cursor, parses the result,     *)
(* walks the tree in enter order and runs the _check* battery on every     *)
(* node, writing into the visitor's _state.                                *)
(*                                                                         *)
(* The "view more documents" command of                                    *)
(* src/src/editors/editorsController.ts works on state of its own: the     *)
(* operations store, the active connection and the change events fired.    *)
(***************************************************************************)
EXTENDS Integers, Sequences, FiniteSets, TLC

VARIABLES
  pc,          \* position of the request: "idle", "parse", "traverse", "done", "thrown"
  text,        \* textFromEditor as given by the caller
  position,    \* the caller's cursor {line, character}
  injected,    \* the text handed to the parser
  ast,         \* the parser's result: a File node, or NoAst when it threw
  next,        \* index (1-based) in the enter order of the node entered next
  _state,      \* Visitor._state
  _selection,  \* Visitor._selection
  returned,    \* the state the last finished request returned
  sameObject,  \* the object returned is the object this._state holds
  requests,    \* number of requests this Visitor has been given
  operations,  \* EditorsController._collectionDocumentsOperationsStore.operations
  _collectionViewProvider,  \* EditorsController._collectionViewProvider is set
  activeConnectionId,       \* what _connectionController.getActiveConnectionId() returns
  fired,       \* the URIs _collectionViewProvider.onDidChangeEmitter has fired, in order
  resolved     \* the last call of onViewMoreCollectionDocuments and its outcome

editorVars == <<operations, _collectionViewProvider, activeConnectionId, fired, resolved>>

vars ==
  <<pc, text, position, injected, ast, next, _state, _selection, returned, sameObject,
    requests, editorVars>>

-----------------------------------------------------------------------------
(* Bounds of the model *)

\* most lines of a document made of the lines of one family
MaxLines == 2

\* most lines of a document made of any lines of the catalogue
MaxBroadLines == 1

\* most characters of a text handed to the injector alone
MaxTextLen == 4

\* most requests one Visitor is given
MaxRequests == 2

\* most operations the store is given
MaxOperations == 2

\* most change events fired
MaxFired == 2

-----------------------------------------------------------------------------
(* Strings *)

PLACEHOLDER ==
  <<"T","R","I","G","G","E","R","_","C","H","A","R","A","C","T","E","R">>

NL == "\n"

\* the character U+0060 (a TLA+ string cannot hold it)
Backtick == "GRAVE"

\* String.prototype.slice(from, to) for 0 <= from, 0 <= to (clamped to the length)
slice(s, from, to) ==
  LET f == IF from > Len(s) THEN Len(s) ELSE from
      t == IF to > Len(s) THEN Len(s) ELSE to
  IN  IF f >= t THEN <<>> ELSE SubSeq(s, f + 1, t)

\* equality in the place of containment
includes_whole(s, sub) == s = sub

\* String.prototype.includes
includes(s, sub) ==
  \E i \in 0..(Len(s) - Len(sub)) : SubSeq(s, i + 1, i + Len(sub)) = sub

\* String.prototype.split('\n'): the pieces between the line breaks
split(s) ==
  LET breaks == {i \in 1..Len(s) : s[i] = NL}
      break(k) == CHOOSE i \in breaks : Cardinality({j \in breaks : j <= i}) = k
      from(k) == IF k = 1 THEN 1 ELSE break(k - 1) + 1
      to(k) == IF k = Cardinality(breaks) + 1 THEN Len(s) ELSE break(k) - 1
  IN  [k \in 1..(Cardinality(breaks) + 1) |-> SubSeq(s, from(k), to(k))]

\* Array.prototype.join('\n')
RECURSIVE join(_)
join(lines) ==
  IF Len(lines) = 0 THEN <<>>
  ELSE IF Len(lines) = 1 THEN lines[1]
  ELSE lines[1] \o <<NL>> \o join(Tail(lines))

\* the text of undefined inside a template string
UndefinedText == <<"u","n","d","e","f","i","n","e","d">>

-----------------------------------------------------------------------------
(* Trigger-character injection *)

\* The outcome of a call: a value, or an exception
Returns(v) == [threw |-> FALSE, value |-> v]
Throws == [threw |-> TRUE, value |-> <<>>]

\* textLines[line] = value on a JS array: an index at or past the length
\* leaves holes between the old end and the new element; join() prints a
\* hole as the empty string.
arraySet(textLines, line, value) ==
  [i \in 1..(IF line + 1 > Len(textLines) THEN line + 1 ELSE Len(textLines)) |->
     IF i = line + 1 THEN value
     ELSE IF i <= Len(textLines) THEN textLines[i]
     ELSE <<>>]

\* the injector with a postfix that starts one character late
_handleTriggerCharacter_latePostfix(textFromEditor, pos) ==
  LET textLines == split(textFromEditor)
      defined == pos.line < Len(textLines)
      cur == textLines[pos.line + 1]
  IN  IF pos.character # 0 /\ ~defined
        THEN Throws
        ELSE
          LET prefix == IF pos.character = 0 THEN <<>>
                        ELSE slice(cur, 0, pos.character)
              postfix == IF pos.character = 0
                           THEN (IF defined THEN cur ELSE UndefinedText)
                           ELSE slice(cur, pos.character + 1, Len(cur))
          IN  Returns(join(arraySet(textLines, pos.line,
                                    prefix \o PLACEHOLDER \o postfix)))

_handleTriggerCharacter(textFromEditor, pos) ==
  LET textLines == split(textFromEditor)
      defined == pos.line < Len(textLines)
      cur == textLines[pos.line + 1]
  IN  IF pos.character # 0 /\ ~defined
        THEN Throws  \* undefined.slice: TypeError
        ELSE
          LET prefix == IF pos.character = 0 THEN <<>>
                        ELSE slice(cur, 0, pos.character)
              postfix == IF pos.character = 0
                           THEN (IF defined THEN cur ELSE UndefinedText)
                           ELSE slice(cur, pos.character, Len(cur))
          IN  Returns(join(arraySet(textLines, pos.line,
                                    prefix \o PLACEHOLDER \o postfix)))

-----------------------------------------------------------------------------
(* The parser: @babel/parser on the subset of JavaScript the documents use:  *)
(* expression statements built from identifiers, string and template         *)
(* literals, object and array literals, member accesses, calls and tagged    *)
(* templates, separated by ';' or by a line break.                           *)

IdChars ==
  {"a","b","c","d","e","f","g","h","i","l","m","n","o","p","r","s","t","u","x",
   "A","C","E","G","H","I","P","R","T","_","$"}

Punctuators == {".", "(", ")", "[", "]", "{", "}", ":", ",", ";"}

NoToken == [k |-> "eof", v |-> <<>>, s |-> 0, e |-> 0, q |-> <<>>, x |-> <<>>]

Token(k, v, s, e) == [k |-> k, v |-> v, s |-> s, e |-> e, q |-> <<>>, x |-> <<>>]

\* first offset at or after i that holds no identifier character
IdEnd(t, i) ==
  LET ends == {j \in i..(Len(t) + 1) : j > Len(t) \/ t[j] \notin IdChars}
  IN  CHOOSE j \in ends : \A k \in ends : j <= k

\* offset of the quote closing the string opened before i; 0 when the line
\* or the text ends first
StrEnd(t, i) ==
  LET ends == {j \in i..(Len(t) + 1) : j > Len(t) \/ t[j] \in {NL, "\""}}
      j == CHOOSE e \in ends : \A k \in ends : e <= k
  IN  IF j > Len(t) \/ t[j] = NL THEN 0 ELSE j

\* the template opened at offset o : its quasis and ${identifier} parts
TplScan(t, o) ==
  LET closes == {j \in (o + 1)..Len(t) : t[j] = Backtick}
      e == CHOOSE j \in closes : \A k \in closes : j <= k
      opens == {j \in (o + 1)..(e - 2) : t[j] = "$" /\ t[j + 1] = "{"}
      close(j) == IdEnd(t, j + 2)
      open(n) == CHOOSE j \in opens : Cardinality({k \in opens : k <= j}) = n
      last == Cardinality(opens)
      from(n) == IF n = 1 THEN o + 1 ELSE close(open(n - 1)) + 1
      to(n) == IF n = last + 1 THEN e ELSE open(n)
  IN  IF closes = {} THEN [ok |-> FALSE]
      ELSE IF \E j \in opens : close(j) = j + 2 \/ t[close(j)] # "}"
        THEN [ok |-> FALSE]
      ELSE [ok |-> TRUE,
            tok |-> [k |-> "tpl", v |-> <<>>, s |-> o, e |-> e + 1,
                     q |-> [n \in 1..(last + 1) |->
                              [raw |-> SubSeq(t, from(n), to(n) - 1),
                               s |-> from(n), e |-> to(n)]],
                     x |-> [n \in 1..last |->
                              [name |-> SubSeq(t, open(n) + 2, close(open(n)) - 1),
                               s |-> open(n) + 2, e |-> close(open(n))]]]]

\* the tokenizer at offset i, acc the tokens read so far and at the offset
\* the next token starts at: blanks skipped, one token read
NextToken(t, i, acc) ==
  IF ~acc.ok \/ i # acc.at THEN acc
  ELSE IF t[i] \in {" ", NL} THEN [acc EXCEPT !.at = i + 1]
  ELSE IF t[i] \in IdChars
    THEN LET j == IdEnd(t, i)
         IN  [acc EXCEPT !.at = j,
                         !.toks = Append(@, Token("id", SubSeq(t, i, j - 1), i, j))]
  ELSE IF t[i] = "\""
    THEN LET j == StrEnd(t, i + 1)
         IN  IF j = 0 THEN [acc EXCEPT !.ok = FALSE]
             ELSE [acc EXCEPT !.at = j + 1,
                              !.toks = Append(@, Token("str", SubSeq(t, i + 1, j - 1),
                                                       i, j + 1))]
  ELSE IF t[i] = Backtick
    THEN LET r == TplScan(t, i)
         IN  IF ~r.ok THEN [acc EXCEPT !.ok = FALSE]
             ELSE [acc EXCEPT !.at = r.tok.e, !.toks = Append(@, r.tok)]
  ELSE IF t[i] \in Punctuators
    THEN [acc EXCEPT !.at = i + 1, !.toks = Append(@, Token(t[i], <<>>, i, i + 1))]
  ELSE [acc EXCEPT !.ok = FALSE]

\* the tokenizer run over the offsets from..to of t, in order
RECURSIVE LexFrom(_, _, _, _)
LexFrom(t, from, to, acc) ==
  IF from > to THEN acc
  ELSE IF from = to THEN NextToken(t, from, acc)
  ELSE LET mid == (from + to) \div 2
           left == LexFrom(t, from, mid, acc)
       IN  IF ~left.ok THEN left ELSE LexFrom(t, mid + 1, to, left)

\* the tokens of t
Lex(t) == LexFrom(t, 1, Len(t), [ok |-> TRUE, toks |-> <<>>, at |-> 1])

\* line (1-based) and column (0-based) of every offset 1..Len(t)+1
PosTable(t) ==
  [i \in 1..(Len(t) + 1) |->
     LET breaks == {j \in 1..(i - 1) : t[j] = NL}
         last == IF breaks = {} THEN 0
                 ELSE CHOOSE j \in breaks : \A k \in breaks : k <= j
     IN  [line |-> 1 + Cardinality(breaks), column |-> i - 1 - last]]

\* the parser's context: the tokens and the position table
Context(t, toks) == [toks |-> toks, tab |-> PosTable(t)]

Tok(c, i) == IF i <= Len(c.toks) THEN c.toks[i] ELSE NoToken

Loc(c, s, e) == [start |-> c.tab[s], end |-> c.tab[e]]

Fail == [ok |-> FALSE]

Parsed(node, i, e) == [ok |-> TRUE, node |-> node, i |-> i, e |-> e]

Identifier(c, name, s, e) ==
  [type |-> "Identifier", name |-> name, loc |-> Loc(c, s, e)]

TemplateLiteral(c, tok) ==
  [type |-> "TemplateLiteral",
   quasis |-> [n \in 1..Len(tok.q) |->
                 [type |-> "TemplateElement",
                  value |-> [raw |-> tok.q[n].raw],
                  tail |-> n = Len(tok.q),
                  loc |-> Loc(c, tok.q[n].s, tok.q[n].e)]],
   expressions |-> [n \in 1..Len(tok.x) |->
                      Identifier(c, tok.x[n].name, tok.x[n].s, tok.x[n].e)],
   loc |-> Loc(c, tok.s, tok.e)]

RECURSIVE ParseExpr(_, _)
RECURSIVE ParsePostfix(_, _, _, _, _)
RECURSIVE ParseElems(_, _, _, _)
RECURSIVE ParseProps(_, _, _)
RECURSIVE ParseParams(_, _, _)

\* { r }, r the properties parsed after the token '{'
ObjectExpression(c, tok, r) ==
  IF ~r.ok THEN Fail
  ELSE Parsed([type |-> "ObjectExpression", properties |-> r.node,
               loc |-> Loc(c, tok.s, r.e)], r.i, r.e)

\* [ r ], r the elements parsed after the token '['
ArrayExpression(c, tok, r) ==
  IF ~r.ok THEN Fail
  ELSE Parsed([type |-> "ArrayExpression", elements |-> r.node,
               loc |-> Loc(c, tok.s, r.e)], r.i, r.e)

\* an identifier, a literal, { ... } or [ ... ]
ParsePrimary(c, i) ==
  LET tok == Tok(c, i)
  IN  CASE tok.k = "id" -> Parsed(Identifier(c, tok.v, tok.s, tok.e), i + 1, tok.e)
        [] tok.k = "str" ->
             Parsed([type |-> "StringLiteral", value |-> tok.v,
                     loc |-> Loc(c, tok.s, tok.e)], i + 1, tok.e)
        [] tok.k = "tpl" -> Parsed(TemplateLiteral(c, tok), i + 1, tok.e)
        [] tok.k = "{" -> ObjectExpression(c, tok, ParseProps(c, i + 1, <<>>))
        [] tok.k = "[" -> ArrayExpression(c, tok, ParseElems(c, i + 1, "]", <<>>))
        [] OTHER -> Fail

\* the postfix chain after the primary expression p that starts at token i
PostfixOf(c, i, p) ==
  IF ~p.ok THEN Fail ELSE ParsePostfix(c, p.node, Tok(c, i).s, p.e, p.i)

ParseExpr(c, i) == PostfixOf(c, i, ParsePrimary(c, i))

\* obj[r], r the expression parsed after the token '['
ComputedMember(c, obj, s, r) ==
  IF ~r.ok \/ Tok(c, r.i).k # "]" THEN Fail
  ELSE ParsePostfix(c,
         [type |-> "MemberExpression", object |-> obj,
          property |-> r.node, computed |-> TRUE,
          loc |-> Loc(c, s, Tok(c, r.i).e)],
         s, Tok(c, r.i).e, r.i + 1)

\* obj(r), r the arguments parsed after the token '('
CallExpression(c, obj, s, r) ==
  IF ~r.ok THEN Fail
  ELSE ParsePostfix(c,
         [type |-> "CallExpression", callee |-> obj,
          arguments |-> r.node, loc |-> Loc(c, s, r.e)],
         s, r.e, r.i)

\* the chain of .name, [expr], (args) and tagged templates after obj
ParsePostfix(c, obj, s, e, i) ==
  LET tok == Tok(c, i)
      nxt == Tok(c, i + 1)
  IN  CASE tok.k = "." ->
             IF nxt.k # "id" THEN Fail
             ELSE ParsePostfix(c,
                    [type |-> "MemberExpression", object |-> obj,
                     property |-> Identifier(c, nxt.v, nxt.s, nxt.e),
                     computed |-> FALSE, loc |-> Loc(c, s, nxt.e)],
                    s, nxt.e, i + 2)
        [] tok.k = "[" -> ComputedMember(c, obj, s, ParseExpr(c, i + 1))
        [] tok.k = "(" -> CallExpression(c, obj, s, ParseElems(c, i + 1, ")", <<>>))
        [] tok.k = "tpl" ->
             ParsePostfix(c,
               [type |-> "TaggedTemplateExpression", tag |-> obj,
                quasi |-> TemplateLiteral(c, tok), loc |-> Loc(c, s, tok.e)],
               s, tok.e, i + 1)
        [] OTHER -> Parsed(obj, i, e)

\* the tokens at i are the three adjacent dots of ...
IsEllipsis(c, i) ==
  /\ Tok(c, i).k = "." /\ Tok(c, i + 1).k = "." /\ Tok(c, i + 2).k = "."
  /\ Tok(c, i).e = Tok(c, i + 1).s
  /\ Tok(c, i + 1).e = Tok(c, i + 2).s

\* the null that stands for a hole among the elements of an array
Hole == [type |-> "null"]

\* ...r, r the expression parsed after the dots that start at offset s
SpreadElement(c, s, r) ==
  IF ~r.ok THEN Fail
  ELSE Parsed([type |-> "SpreadElement", argument |-> r.node,
               loc |-> Loc(c, s, r.e)], r.i, r.e)

\* an expression or ...expression
ParseElement(c, i) ==
  IF IsEllipsis(c, i) THEN SpreadElement(c, Tok(c, i).s, ParseExpr(c, i + 3))
  ELSE ParseExpr(c, i)

\* the elements after the element r: ',' continues, the closing token ends
ElemsRest(c, close, acc, r) ==
  IF ~r.ok THEN Fail
  ELSE IF Tok(c, r.i).k = ","
    THEN ParseElems(c, r.i + 1, close, Append(acc, r.node))
  ELSE IF Tok(c, r.i).k = close
    THEN Parsed(Append(acc, r.node), r.i + 1, Tok(c, r.i).e)
  ELSE Fail

\* elements separated by commas up to the closing token; in an array a
\* comma where an element should start leaves a hole
ParseElems(c, i, close, acc) ==
  IF Tok(c, i).k = close THEN Parsed(acc, i + 1, Tok(c, i).e)
  ELSE IF close = "]" /\ Tok(c, i).k = ","
    THEN ParseElems(c, i + 1, close, Append(acc, Hole))
  ELSE ElemsRest(c, close, acc, ParseElement(c, i))

ObjectProperty(c, key, value, shorthand, s, e) ==
  [type |-> "ObjectProperty", key |-> key, value |-> value,
   computed |-> FALSE, shorthand |-> shorthand, loc |-> Loc(c, s, e)]

\* after the property r: ',' continues, '}' ends the object
PropsRest(c, acc, r) ==
  IF ~r.ok THEN Fail
  ELSE IF Tok(c, r.i).k = "," THEN ParseProps(c, r.i + 1, Append(acc, r.node))
  ELSE IF Tok(c, r.i).k = "}" THEN Parsed(Append(acc, r.node), r.i + 1, Tok(c, r.i).e)
  ELSE Fail

\* the identifiers of a parameter list up to ')'
ParseParams(c, i, acc) ==
  LET tok == Tok(c, i)
  IN  IF tok.k = ")" THEN Parsed(acc, i + 1, tok.e)
      ELSE IF tok.k # "id" THEN Fail
      ELSE IF Tok(c, i + 1).k = ","
        THEN ParseParams(c, i + 2, Append(acc, Identifier(c, tok.v, tok.s, tok.e)))
      ELSE IF Tok(c, i + 1).k = ")"
        THEN Parsed(Append(acc, Identifier(c, tok.v, tok.s, tok.e)),
                    i + 2, Tok(c, i + 1).e)
      ELSE Fail

\* { r }, r the expression parsed after the token '{' at i, with or
\* without its ';'
BlockStatement(c, i, r) ==
  LET tok == Tok(c, i)
      semi == r.ok /\ Tok(c, r.i).k = ";"
      last == IF semi THEN r.i + 1 ELSE r.i
  IN  IF ~r.ok \/ Tok(c, last).k # "}" THEN Fail
      ELSE Parsed([type |-> "BlockStatement",
                   body |-> <<[type |-> "ExpressionStatement", expression |-> r.node,
                               loc |-> Loc(c, Tok(c, i + 1).s,
                                           IF semi THEN Tok(c, r.i).e ELSE r.e)]>>,
                   loc |-> Loc(c, tok.s, Tok(c, last).e)],
                  last + 1, Tok(c, last).e)

\* a function body: { }, or { expression }
ParseBlock(c, i) ==
  LET tok == Tok(c, i)
  IN  IF tok.k # "{" THEN Fail
      ELSE IF Tok(c, i + 1).k = "}"
        THEN Parsed([type |-> "BlockStatement", body |-> <<>>,
                     loc |-> Loc(c, tok.s, Tok(c, i + 1).e)],
                    i + 2, Tok(c, i + 1).e)
      ELSE BlockStatement(c, i, ParseExpr(c, i + 1))

\* key(ps) b, ps the parameters and b the body parsed after the key
ObjectMethod(c, tok, ps, b) ==
  IF ~ps.ok \/ ~b.ok THEN Fail
  ELSE Parsed([type |-> "ObjectMethod",
               key |-> Identifier(c, tok.v, tok.s, tok.e),
               params |-> ps.node, body |-> b.node,
               computed |-> FALSE,
               loc |-> Loc(c, tok.s, b.e)], b.i, b.e)

\* the body of the method whose parameters are ps
MethodOf(c, tok, ps) ==
  IF ~ps.ok THEN Fail ELSE ObjectMethod(c, tok, ps, ParseBlock(c, ps.i))

\* key: r, r the value parsed after the ':'
KeyValue(c, tok, r) ==
  IF ~r.ok THEN Fail
  ELSE Parsed(ObjectProperty(c,
                IF tok.k = "id" THEN Identifier(c, tok.v, tok.s, tok.e)
                ELSE [type |-> "StringLiteral", value |-> tok.v,
                      loc |-> Loc(c, tok.s, tok.e)],
                r.node, FALSE, tok.s, r.e), r.i, r.e)

\* one property: spread, method, key: value or shorthand
ParseProp(c, i) ==
  LET tok == Tok(c, i)
  IN  IF IsEllipsis(c, i) THEN SpreadElement(c, tok.s, ParseExpr(c, i + 3))
      ELSE IF tok.k = "id" /\ Tok(c, i + 1).k = "("
        THEN MethodOf(c, tok, ParseParams(c, i + 2, <<>>))
      ELSE IF tok.k \in {"id", "str"} /\ Tok(c, i + 1).k = ":"
        THEN KeyValue(c, tok, ParseExpr(c, i + 2))
      ELSE IF tok.k = "id"
        THEN Parsed(ObjectProperty(c, Identifier(c, tok.v, tok.s, tok.e),
                                   Identifier(c, tok.v, tok.s, tok.e),
                                   TRUE, tok.s, tok.e), i + 1, tok.e)
      ELSE Fail

\* key: value, shorthand, method and spread properties up to '}'
ParseProps(c, i, acc) ==
  IF Tok(c, i).k = "}" THEN Parsed(acc, i + 1, Tok(c, i).e)
  ELSE PropsRest(c, acc, ParseProp(c, i))

\* the keyword of a declaration `let x`
IsLet(tok) == tok.k = "id" /\ tok.v = <<"l", "e", "t">>

\* let <id>, without an initializer
VariableDeclaration(c, id, s, e) ==
  [type |-> "VariableDeclaration",
   kind |-> "let",
   declarations |-> <<[type |-> "VariableDeclarator",
                       id |-> Identifier(c, id.v, id.s, id.e),
                       loc |-> Loc(c, id.s, id.e)]>>,
   loc |-> Loc(c, s, e)]

RECURSIVE ParseBody(_, _, _)

\* the statements after the declaration let <id> at token i
DeclarationRest(c, i, acc) ==
  LET tok == Tok(c, i)
      id == Tok(c, i + 1)
      after == Tok(c, i + 2)
  IN  IF after.k = ";"
        THEN ParseBody(c, i + 3,
               Append(acc, VariableDeclaration(c, id, tok.s, after.e)))
      ELSE IF i + 2 > Len(c.toks) \/ c.tab[after.s].line > c.tab[id.e].line
        THEN ParseBody(c, i + 2,
               Append(acc, VariableDeclaration(c, id, tok.s, id.e)))
      ELSE Fail

\* the statements after the expression r that starts at token i
StatementRest(c, i, acc, r) ==
  LET tok == Tok(c, i)
      after == Tok(c, r.i)
  IN  IF ~r.ok THEN Fail
      ELSE IF after.k = ";"
        THEN ParseBody(c, r.i + 1,
               Append(acc, [type |-> "ExpressionStatement",
                            expression |-> r.node,
                            loc |-> Loc(c, tok.s, after.e)]))
      ELSE IF r.i > Len(c.toks) \/ c.tab[after.s].line > c.tab[r.e].line
        THEN ParseBody(c, r.i,
               Append(acc, [type |-> "ExpressionStatement",
                            expression |-> r.node,
                            loc |-> Loc(c, tok.s, r.e)]))
      ELSE Fail

\* statements up to the end of the text; a statement ends at ';', at the
\* end of the text, or before a token on a later line that cannot continue it
ParseBody(c, i, acc) ==
  LET tok == Tok(c, i)
  IN  IF i > Len(c.toks) THEN Parsed(acc, i, 0)
      ELSE IF tok.k = ";"
        THEN ParseBody(c, i + 1,
               Append(acc, [type |-> "EmptyStatement", loc |-> Loc(c, tok.s, tok.e)]))
      ELSE IF tok.k \in {"{", "str"} THEN Fail  \* a block or a directive: not in the subset
      ELSE IF IsLet(tok) /\ Tok(c, i + 1).k = "id" THEN DeclarationRest(c, i, acc)
      ELSE StatementRest(c, i, acc, ParseExpr(c, i))

NoAst == [type |-> "undefined"]

\* parser.parse(textFromEditor, { sourceType: 'module' }) inside try/catch:
\* the File node, or NoAst when the parser threw
parse(t) ==
  LET lx == Lex(t)
  IN  IF ~lx.ok THEN NoAst
      ELSE LET c == Context(t, lx.toks)
               r == ParseBody(c, 1, <<>>)
           IN  IF ~r.ok THEN NoAst
               ELSE [type |-> "File",
                     program |-> [type |-> "Program", body |-> r.node,
                                  loc |-> Loc(c, 1, Len(t) + 1)]]

-----------------------------------------------------------------------------
(* Traversal order *)

\* the children @babel/traverse visits, in the order of the node's visitor keys
SubNodes(node) ==
  CASE node.type = "File" -> <<node.program>>
    [] node.type = "Program" -> node.body
    [] node.type = "ExpressionStatement" -> <<node.expression>>
    [] node.type = "CallExpression" -> <<node.callee>> \o node.arguments
    [] node.type = "MemberExpression" -> <<node.object, node.property>>
    [] node.type = "TaggedTemplateExpression" -> <<node.tag, node.quasi>>
    [] node.type = "TemplateLiteral" -> node.quasis \o node.expressions
    [] node.type = "ObjectExpression" -> node.properties
    [] node.type = "ObjectProperty" -> <<node.key, node.value>>
    [] node.type = "ArrayExpression" -> SelectSeq(node.elements, LAMBDA e : e # Hole)
    [] node.type = "SpreadElement" -> <<node.argument>>
    [] node.type = "ObjectMethod" -> <<node.key>> \o node.params \o <<node.body>>
    [] node.type = "BlockStatement" -> node.body
    [] node.type = "VariableDeclaration" -> node.declarations
    [] node.type = "VariableDeclarator" -> <<node.id>>
    [] OTHER -> <<>>

RECURSIVE enterOrder(_)
RECURSIVE enterAll(_)

\* node and its descendants, depth first, parents before children
enterOrder(node) == <<node>> \o enterAll(SubNodes(node))

enterAll(nodes) ==
  IF Len(nodes) = 0 THEN <<>>
  ELSE enterOrder(Head(nodes)) \o enterAll(Tail(nodes))

\* traverse(parent, { enter }): every descendant of parent, parent excluded;
\* nothing when parent is undefined
traverse(parent) ==
  IF parent = NoAst THEN <<>> ELSE enterAll(SubNodes(parent))

\* the nodes a traversal of parent enters, as a set
NodesIn(parent) == {traverse(parent)[i] : i \in 1..Len(traverse(parent))}

-----------------------------------------------------------------------------
(* The state object *)

\* a string-or-null field holds JSNull or JSString(s)
JSNull == <<>>
JSString(s) == <<s>>

\* 'field' in this._state
has(st, field) == field \in DOMAIN st

\* this._state.field = value
assign(st, field, value) ==
  [f \in (DOMAIN st) \cup {field} |-> IF f = field THEN value ELSE st[f]]

_getDefaultsForCompletion ==
  [databaseName |-> JSNull,
   collectionName |-> JSNull,
   streamProcessorName |-> JSNull,
   isObjectKey |-> FALSE,
   isIdentifierObjectValue |-> FALSE,
   isTextObjectValue |-> FALSE,
   isStage |-> FALSE,
   stageOperator |-> JSNull,
   isCollectionSymbol |-> FALSE,
   isStreamProcessorSymbol |-> FALSE,
   isUseCallExpression |-> FALSE,
   isGlobalSymbol |-> FALSE,
   isDbSymbol |-> FALSE,
   isSpSymbol |-> FALSE,
   isCollectionName |-> FALSE,
   isStreamProcessorName |-> FALSE,
   isAggregationCursor |-> FALSE,
   isFindCursor |-> FALSE]

\* the names the checks compare against
use == <<"u","s","e">>
db == <<"d","b">>
sp == <<"s","p">>
find == <<"f","i","n","d">>
aggregate == <<"a","g","g","r","e","g","a","t","e">>
getCollection == <<"g","e","t","C","o","l","l","e","c","t","i","o","n">>
getProcessor == <<"g","e","t","P","r","o","c","e","s","s","o","r">>

-----------------------------------------------------------------------------
(* Checks on call expressions *)

_checkIsUseCallAsSimpleString(node, st) ==
  IF /\ node.callee.type = "Identifier"
     /\ node.callee.name = use
     /\ Len(node.arguments) = 1
     /\ node.arguments[1].type = "StringLiteral"
     /\ includes(node.arguments[1].value, PLACEHOLDER)
     /\ has(st, "isUseCallExpression")
    THEN assign(st, "isUseCallExpression", TRUE)
    ELSE st

\* the check without the test of the number of quasis
_checkIsUseCallAsTemplate_anyQuasis(node, st) ==
  IF /\ node.callee.type = "Identifier"
     /\ node.callee.name = use
     /\ Len(node.arguments) = 1
     /\ node.arguments[1].type = "TemplateLiteral"
     /\ \E q \in 1..Len(node.arguments[1].quasis) :
          includes(node.arguments[1].quasis[q].value.raw, PLACEHOLDER)
     /\ has(st, "isUseCallExpression")
    THEN assign(st, "isUseCallExpression", TRUE)
    ELSE st

_checkIsUseCallAsTemplate(node, st) ==
  IF /\ node.callee.type = "Identifier"
     /\ node.callee.name = use
     /\ Len(node.arguments) = 1
     /\ node.arguments[1].type = "TemplateLiteral"
     /\ Len(node.arguments[1].quasis) = 1
     /\ Len(node.arguments[1].quasis[1].value.raw) > 0
     /\ includes(node.arguments[1].quasis[1].value.raw, PLACEHOLDER)
     /\ has(st, "isUseCallExpression")
    THEN assign(st, "isUseCallExpression", TRUE)
    ELSE st

_checkIsUseCall(node, st) ==
  _checkIsUseCallAsTemplate(node, _checkIsUseCallAsSimpleString(node, st))

_checkGetCollectionAsSimpleString(node, st) ==
  IF /\ node.arguments[1].type = "StringLiteral"
     /\ includes(node.arguments[1].value, PLACEHOLDER)
     /\ has(st, "isCollectionName")
    THEN assign(st, "isCollectionName", TRUE)
    ELSE st

_checkGetCollectionAsTemplate(node, st) ==
  IF /\ node.arguments[1].type = "TemplateLiteral"
     /\ Len(node.arguments[1].quasis) = 1
     /\ includes(node.arguments[1].quasis[1].value.raw, PLACEHOLDER)
     /\ has(st, "isCollectionName")
    THEN assign(st, "isCollectionName", TRUE)
    ELSE st

\* the check without the test of the number of arguments
_checkIsCollectionNameAsCallExpression_anyArity(node, st) ==
  IF /\ node.callee.type = "MemberExpression"
     /\ node.callee.object.type = "Identifier"
     /\ node.callee.object.name = db
     /\ node.callee.property.type = "Identifier"
     /\ node.callee.property.name = getCollection
     /\ Len(node.arguments) >= 1
    THEN _checkGetCollectionAsTemplate(node,
           _checkGetCollectionAsSimpleString(node, st))
    ELSE st

_checkIsCollectionNameAsCallExpression(node, st) ==
  IF /\ node.callee.type = "MemberExpression"
     /\ node.callee.object.type = "Identifier"
     /\ node.callee.object.name = db
     /\ node.callee.property.type = "Identifier"
     /\ node.callee.property.name = getCollection
     /\ Len(node.arguments) = 1
    THEN _checkGetCollectionAsTemplate(node,
           _checkGetCollectionAsSimpleString(node, st))
    ELSE st

_checkGetStreamProcessorAsSimpleString(node, st) ==
  IF /\ node.arguments[1].type = "StringLiteral"
     /\ includes(node.arguments[1].value, PLACEHOLDER)
     /\ has(st, "isStreamProcessorName")
    THEN assign(st, "isStreamProcessorName", TRUE)
    ELSE st

_checkGetStreamProcessorAsTemplate(node, st) ==
  IF /\ node.arguments[1].type = "TemplateLiteral"
     /\ Len(node.arguments[1].quasis) = 1
     /\ includes(node.arguments[1].quasis[1].value.raw, PLACEHOLDER)
     /\ has(st, "isStreamProcessorName")
    THEN assign(st, "isStreamProcessorName", TRUE)
    ELSE st

_checkIsStreamProcessorNameAsCallExpression(node, st) ==
  IF /\ node.callee.type = "MemberExpression"
     /\ node.callee.object.type = "Identifier"
     /\ node.callee.object.name = sp
     /\ node.callee.property.type = "Identifier"
     /\ node.callee.property.name = getProcessor
     /\ Len(node.arguments) = 1
    THEN _checkGetStreamProcessorAsTemplate(node,
           _checkGetStreamProcessorAsSimpleString(node, st))
    ELSE st

\* the check without the comparison against the cursor
_checkHasDatabaseName_anywhere(node, st, sel) ==
  IF /\ node.callee.type = "Identifier"
     /\ node.callee.name = use
     /\ Len(node.arguments) = 1
     /\ node.arguments[1].type = "StringLiteral"
     /\ has(st, "databaseName")
    THEN assign(st, "databaseName", JSString(node.arguments[1].value))
    ELSE st

_checkHasDatabaseName(node, st, sel) ==
  IF /\ node.callee.type = "Identifier"
     /\ node.callee.name = use
     /\ Len(node.arguments) = 1
     /\ node.arguments[1].type = "StringLiteral"
     /\ \/ sel.start.line > node.loc.end.line - 1
        \/ /\ sel.start.line = node.loc.end.line - 1
           /\ sel.start.character >= node.loc.end.column
     /\ has(st, "databaseName")
    THEN assign(st, "databaseName", JSString(node.arguments[1].value))
    ELSE st

_visitCallExpression(node, st, sel) ==
  IF node.type # "CallExpression" THEN st
  ELSE _checkHasDatabaseName(node,
         _checkIsStreamProcessorNameAsCallExpression(node,
           _checkIsCollectionNameAsCallExpression(node,
             _checkIsUseCall(node, st))),
         sel)

-----------------------------------------------------------------------------
(* Checks on member expressions *)

_checkHasAggregationCall(node, st) ==
  IF /\ node.object.type = "CallExpression"
     /\ node.property.type = "Identifier"
     /\ includes(node.property.name, PLACEHOLDER)
     /\ node.object.callee.type = "MemberExpression"
     /\ ~node.object.callee.computed
     /\ node.object.callee.property.type = "Identifier"
     /\ node.object.callee.property.name = aggregate
     /\ has(st, "isAggregationCursor")
    THEN assign(st, "isAggregationCursor", TRUE)
    ELSE st

\* the check without the test that the callee is not computed
_checkHasFindCall_computed(node, st) ==
  IF /\ node.object.type = "CallExpression"
     /\ node.property.type = "Identifier"
     /\ includes(node.property.name, PLACEHOLDER)
     /\ node.object.callee.type = "MemberExpression"
     /\ node.object.callee.property.type = "Identifier"
     /\ node.object.callee.property.name = find
     /\ has(st, "isFindCursor")
    THEN assign(st, "isFindCursor", TRUE)
    ELSE st

_checkHasFindCall(node, st) ==
  IF /\ node.object.type = "CallExpression"
     /\ node.property.type = "Identifier"
     /\ includes(node.property.name, PLACEHOLDER)
     /\ node.object.callee.type = "MemberExpression"
     /\ ~node.object.callee.computed
     /\ node.object.callee.property.type = "Identifier"
     /\ node.object.callee.property.name = find
     /\ has(st, "isFindCursor")
    THEN assign(st, "isFindCursor", TRUE)
    ELSE st

\* the check taking db itself, not a member of db, for the object
_checkIsCollectionMemberExpression_bareDb(node, st) ==
  IF /\ node.object.type = "Identifier"
     /\ node.object.name = db
     /\ node.property.type = "Identifier"
     /\ includes(node.property.name, PLACEHOLDER)
     /\ has(st, "isCollectionSymbol")
    THEN assign(st, "isCollectionSymbol", TRUE)
    ELSE st

_checkIsCollectionMemberExpression(node, st) ==
  IF /\ node.object.type = "MemberExpression"
     /\ node.object.object.type = "Identifier"
     /\ node.object.object.name = db
     /\ node.property.type = "Identifier"
     /\ includes(node.property.name, PLACEHOLDER)
     /\ has(st, "isCollectionSymbol")
    THEN assign(st, "isCollectionSymbol", TRUE)
    ELSE st

_checkIsCollectionCallExpression(node, st) ==
  IF /\ node.object.type = "CallExpression"
     /\ node.object.callee.type = "MemberExpression"
     /\ node.object.callee.object.type = "Identifier"
     /\ node.object.callee.object.name = db
     /\ node.object.callee.property.type = "Identifier"
     /\ node.object.callee.property.name = getCollection
     /\ node.property.type = "Identifier"
     /\ includes(node.property.name, PLACEHOLDER)
     /\ has(st, "isCollectionSymbol")
    THEN assign(st, "isCollectionSymbol", TRUE)
    ELSE st

\* the check taking isDbSymbol back when it sets isCollectionSymbol
_checkIsCollectionSymbol_exclusive(node, st) ==
  IF /\ _checkIsCollectionCallExpression(node,
          _checkIsCollectionMemberExpression(node, st)) # st
     /\ has(st, "isDbSymbol")
    THEN assign(assign(st, "isCollectionSymbol", TRUE), "isDbSymbol", FALSE)
    ELSE _checkIsCollectionCallExpression(node,
           _checkIsCollectionMemberExpression(node, st))

_checkIsCollectionSymbol(node, st) ==
  _checkIsCollectionCallExpression(node,
    _checkIsCollectionMemberExpression(node, st))

\* the check storing the outcome of its test, true or false
_checkIsCollectionNameAsMemberExpression_stores(node, st) ==
  IF has(st, "isCollectionName")
    THEN assign(st, "isCollectionName",
           /\ node.object.type = "Identifier"
           /\ node.object.name = db
           /\ \/ /\ node.property.type = "Identifier"
                 /\ includes(node.property.name, PLACEHOLDER)
              \/ /\ node.property.type = "StringLiteral"
                 /\ includes(node.property.value, PLACEHOLDER))
    ELSE st

_checkIsCollectionNameAsMemberExpression(node, st) ==
  IF /\ node.object.type = "Identifier"
     /\ node.object.name = db
     /\ \/ /\ node.property.type = "Identifier"
           /\ includes(node.property.name, PLACEHOLDER)
        \/ /\ node.property.type = "StringLiteral"
           /\ includes(node.property.value, PLACEHOLDER)
     /\ has(st, "isCollectionName")
    THEN assign(st, "isCollectionName", TRUE)
    ELSE st

_checkHasCollectionNameMemberExpression(node, st) ==
  IF /\ node.object.type = "MemberExpression"
     /\ node.object.object.type = "Identifier"
     /\ node.object.object.name = db
    THEN IF node.object.property.type = "Identifier" /\ has(st, "collectionName")
           THEN assign(st, "collectionName", JSString(node.object.property.name))
         ELSE IF node.object.property.type = "StringLiteral" /\ has(st, "collectionName")
           THEN assign(st, "collectionName", JSString(node.object.property.value))
         ELSE st
    ELSE st

\* the check without the test that getCollection has exactly one argument
_checkHasCollectionNameCallExpression_anyArity(node, st) ==
  IF /\ node.object.type = "CallExpression"
     /\ node.object.callee.type = "MemberExpression"
     /\ node.object.callee.object.type = "Identifier"
     /\ node.object.callee.object.name = db
     /\ node.object.callee.property.type = "Identifier"
     /\ node.object.callee.property.name = getCollection
     /\ Len(node.object.arguments) >= 1
     /\ node.object.arguments[1].type = "StringLiteral"
     /\ has(st, "collectionName")
    THEN assign(st, "collectionName", JSString(node.object.arguments[1].value))
    ELSE st

_checkHasCollectionNameCallExpression(node, st) ==
  IF /\ node.object.type = "CallExpression"
     /\ node.object.callee.type = "MemberExpression"
     /\ node.object.callee.object.type = "Identifier"
     /\ node.object.callee.object.name = db
     /\ node.object.callee.property.type = "Identifier"
     /\ node.object.callee.property.name = getCollection
     /\ Len(node.object.arguments) = 1
     /\ node.object.arguments[1].type = "StringLiteral"
     /\ has(st, "collectionName")
    THEN assign(st, "collectionName", JSString(node.object.arguments[1].value))
    ELSE st

\* the check keeping the first name it finds
_checkHasCollectionName_first(node, st) ==
  IF has(st, "collectionName") /\ st.collectionName # JSNull THEN st
  ELSE _checkHasCollectionNameCallExpression(node,
         _checkHasCollectionNameMemberExpression(node, st))

_checkHasCollectionName(node, st) ==
  _checkHasCollectionNameCallExpression(node,
    _checkHasCollectionNameMemberExpression(node, st))

_checkIsStreamProcessorMemberExpression(node, st) ==
  IF /\ node.object.type = "MemberExpression"
     /\ node.object.object.type = "Identifier"
     /\ node.object.object.name = sp
     /\ node.property.type = "Identifier"
     /\ includes(node.property.name, PLACEHOLDER)
     /\ has(st, "isStreamProcessorSymbol")
    THEN assign(st, "isStreamProcessorSymbol", TRUE)
    ELSE st

_checkIsStreamProcessorCallExpression(node, st) ==
  IF /\ node.object.type = "CallExpression"
     /\ node.object.callee.type = "MemberExpression"
     /\ node.object.callee.object.type = "Identifier"
     /\ node.object.callee.object.name = sp
     /\ node.object.callee.property.type = "Identifier"
     /\ node.object.callee.property.name = getProcessor
     /\ node.property.type = "Identifier"
     /\ includes(node.property.name, PLACEHOLDER)
     /\ has(st, "isStreamProcessorSymbol")
    THEN assign(st, "isStreamProcessorSymbol", TRUE)
    ELSE st

_checkIsStreamProcessorSymbol(node, st) ==
  _checkIsStreamProcessorCallExpression(node,
    _checkIsStreamProcessorMemberExpression(node, st))

_checkIsStreamProcessorNameAsMemberExpression(node, st) ==
  IF /\ node.object.type = "Identifier"
     /\ node.object.name = sp
     /\ \/ /\ node.property.type = "Identifier"
           /\ includes(node.property.name, PLACEHOLDER)
        \/ /\ node.property.type = "StringLiteral"
           /\ includes(node.property.value, PLACEHOLDER)
     /\ has(st, "isStreamProcessorName")
    THEN assign(assign(st, "isSpSymbol", TRUE), "isStreamProcessorName", TRUE)
    ELSE st

_checkHasStreamProcessorNameMemberExpression(node, st) ==
  IF /\ node.object.type = "MemberExpression"
     /\ node.object.object.type = "Identifier"
     /\ node.object.object.name = sp
    THEN IF node.object.property.type = "Identifier" /\ has(st, "streamProcessorName")
           THEN assign(st, "streamProcessorName", JSString(node.object.property.name))
         ELSE IF node.object.property.type = "StringLiteral"
                 /\ has(st, "streamProcessorName")
           THEN assign(st, "streamProcessorName", JSString(node.object.property.value))
         ELSE st
    ELSE st

_checkHasStreamProcessorNameCallExpression(node, st) ==
  IF /\ node.object.type = "CallExpression"
     /\ node.object.callee.type = "MemberExpression"
     /\ node.object.callee.object.type = "Identifier"
     /\ node.object.callee.object.name = sp
     /\ node.object.callee.property.type = "Identifier"
     /\ node.object.callee.property.name = getProcessor
     /\ Len(node.object.arguments) = 1
     /\ node.object.arguments[1].type = "StringLiteral"
     /\ has(st, "streamProcessorName")
    THEN assign(st, "streamProcessorName", JSString(node.object.arguments[1].value))
    ELSE st

_checkHasStreamProcessorName(node, st) ==
  _checkHasStreamProcessorNameCallExpression(node,
    _checkHasStreamProcessorNameMemberExpression(node, st))

_visitMemberExpression(node, st) ==
  IF node.type # "MemberExpression" THEN st
  ELSE _checkHasStreamProcessorName(node,
         _checkIsStreamProcessorNameAsMemberExpression(node,
           _checkIsStreamProcessorSymbol(node,
             _checkHasCollectionName(node,
               _checkIsCollectionNameAsMemberExpression(node,
                 _checkIsCollectionSymbol(node,
                   _checkHasFindCall(node,
                     _checkHasAggregationCall(node, st))))))))

-----------------------------------------------------------------------------
(* Checks on expression statements *)

_checkIsGlobalSymbol(node, st) ==
  IF /\ node.expression.type = "Identifier"
     /\ includes(node.expression.name, PLACEHOLDER)
     /\ has(st, "isGlobalSymbol")
    THEN assign(st, "isGlobalSymbol", TRUE)
    ELSE st

\* the check taking any member expression that starts at db
_checkIsDbSymbol_rooted(node, st) ==
  IF /\ node.expression.type = "MemberExpression"
     /\ \/ /\ node.expression.object.type = "Identifier"
           /\ node.expression.object.name = db
        \/ /\ node.expression.object.type = "MemberExpression"
           /\ node.expression.object.object.type = "Identifier"
           /\ node.expression.object.object.name = db
     /\ has(st, "isDbSymbol")
    THEN assign(st, "isDbSymbol", TRUE)
    ELSE st

_checkIsDbSymbol(node, st) ==
  IF /\ node.expression.type = "MemberExpression"
     /\ node.expression.object.type = "Identifier"
     /\ node.expression.object.name = db
     /\ has(st, "isDbSymbol")
    THEN assign(st, "isDbSymbol", TRUE)
    ELSE st

\* the check asking for the marker in the member's property
_checkIsSpSymbol_marked(node, st) ==
  IF /\ node.expression.type = "MemberExpression"
     /\ node.expression.object.type = "Identifier"
     /\ node.expression.object.name = sp
     /\ node.expression.property.type = "Identifier"
     /\ includes(node.expression.property.name, PLACEHOLDER)
     /\ has(st, "isSpSymbol")
    THEN assign(st, "isSpSymbol", TRUE)
    ELSE st

_checkIsSpSymbol(node, st) ==
  IF /\ node.expression.type = "MemberExpression"
     /\ node.expression.object.type = "Identifier"
     /\ node.expression.object.name = sp
     /\ has(st, "isSpSymbol")
    THEN assign(st, "isSpSymbol", TRUE)
    ELSE st

_visitExpressionStatement(node, st) ==
  IF node.type = "ExpressionStatement"
    THEN _checkIsSpSymbol(node, _checkIsDbSymbol(node, _checkIsGlobalSymbol(node, st)))
    ELSE st

-----------------------------------------------------------------------------
(* Checks on object and array expressions *)

\* items.find(callback) with a callback that never returns a truthy value,
\* and items.forEach(callback), run the callback on every item in order:
\* after[i] is the state after the first i items.

\* the check looking at the first property only
_checkIsObjectKey_first(node, st) ==
  IF /\ Len(node.properties) > 0
     /\ node.properties[1].type = "ObjectProperty"
     /\ node.properties[1].key.type = "Identifier"
     /\ includes(node.properties[1].key.name, PLACEHOLDER)
     /\ has(st, "isObjectKey")
    THEN assign(st, "isObjectKey", TRUE)
    ELSE st

_checkIsObjectKey(node, st) ==
  LET callback(item, s) ==
        IF /\ item.type = "ObjectProperty"
           /\ item.key.type = "Identifier"
           /\ includes(item.key.name, PLACEHOLDER)
           /\ has(s, "isObjectKey")
          THEN assign(s, "isObjectKey", TRUE)
          ELSE s
      after[i \in 0..Len(node.properties)] ==
        IF i = 0 THEN st ELSE callback(node.properties[i], after[i - 1])
  IN  after[Len(node.properties)]

\* the check passing over shorthand properties
_checkIsIdentifierObjectValue_notShorthand(node, st) ==
  LET callback(item, s) ==
        IF /\ item.type = "ObjectProperty"
           /\ ~item.shorthand
           /\ item.value.type = "Identifier"
           /\ includes(item.value.name, PLACEHOLDER)
           /\ has(s, "isIdentifierObjectValue")
          THEN assign(s, "isIdentifierObjectValue", TRUE)
          ELSE s
      after[i \in 0..Len(node.properties)] ==
        IF i = 0 THEN st ELSE callback(node.properties[i], after[i - 1])
  IN  after[Len(node.properties)]

_checkIsIdentifierObjectValue(node, st) ==
  LET callback(item, s) ==
        IF /\ item.type = "ObjectProperty"
           /\ item.value.type = "Identifier"
           /\ includes(item.value.name, PLACEHOLDER)
           /\ has(s, "isIdentifierObjectValue")
          THEN assign(s, "isIdentifierObjectValue", TRUE)
          ELSE s
      after[i \in 0..Len(node.properties)] ==
        IF i = 0 THEN st ELSE callback(node.properties[i], after[i - 1])
  IN  after[Len(node.properties)]

_checkIsTextObjectValue(node, st) ==
  LET callback(item, s) ==
        IF /\ \/ /\ item.type = "ObjectProperty"
                 /\ item.value.type = "StringLiteral"
                 /\ includes(item.value.value, PLACEHOLDER)
              \/ /\ item.type = "ObjectProperty"
                 /\ item.value.type = "TemplateLiteral"
                 /\ Len(item.value.quasis) = 1
                 /\ includes(item.value.quasis[1].value.raw, PLACEHOLDER)
           /\ has(s, "isTextObjectValue")
          THEN assign(s, "isTextObjectValue", TRUE)
          ELSE s
      after[i \in 0..Len(node.properties)] ==
        IF i = 0 THEN st ELSE callback(node.properties[i], after[i - 1])
  IN  after[Len(node.properties)]

_visitObjectExpression(node, st) ==
  IF node.type = "ObjectExpression"
    THEN _checkIsTextObjectValue(node,
           _checkIsIdentifierObjectValue(node, _checkIsObjectKey(node, st)))
    ELSE st

\* what is left of the state when a check throws
TypeError == [threw |-> TRUE]

\* the check reading item.type without the ?. : a TypeError on a hole
_checkIsStage_unguarded(node, st) ==
  LET property(item, s) ==
        IF /\ item.type = "ObjectProperty"
           /\ item.key.type = "Identifier"
           /\ includes(item.key.name, PLACEHOLDER)
           /\ has(s, "isStage")
          THEN assign(s, "isStage", TRUE)
          ELSE s
      element(item, s) ==
        IF item = Hole THEN TypeError
        ELSE IF item.type = "ObjectExpression"
          THEN LET inItem[i \in 0..Len(item.properties)] ==
                     IF i = 0 THEN s ELSE property(item.properties[i], inItem[i - 1])
               IN  inItem[Len(item.properties)]
          ELSE s
      after[i \in 0..Len(node.elements)] ==
        IF i = 0 THEN st ELSE element(node.elements[i], after[i - 1])
  IN  after[Len(node.elements)]

\* the check looking for the marker one object deeper as well, among the
\* keys of the object an element's property holds
_checkIsStage_nested(node, st) ==
  LET marked(item) ==
        /\ item.type = "ObjectProperty"
        /\ item.key.type = "Identifier"
        /\ includes(item.key.name, PLACEHOLDER)
      property(item, s) ==
        IF /\ item.type = "ObjectProperty"
           /\ \/ marked(item)
              \/ /\ item.value.type = "ObjectExpression"
                 /\ \E j \in 1..Len(item.value.properties) :
                      marked(item.value.properties[j])
           /\ has(s, "isStage")
          THEN assign(s, "isStage", TRUE)
          ELSE s
      element(item, s) ==
        IF item # Hole /\ item.type = "ObjectExpression"
          THEN LET inItem[i \in 0..Len(item.properties)] ==
                     IF i = 0 THEN s ELSE property(item.properties[i], inItem[i - 1])
               IN  inItem[Len(item.properties)]
          ELSE s
      after[i \in 0..Len(node.elements)] ==
        IF i = 0 THEN st ELSE element(node.elements[i], after[i - 1])
  IN  after[Len(node.elements)]

\* the check looking at the first element of the array only
_checkIsStage_firstElement(node, st) ==
  IF /\ Len(node.elements) > 0
     /\ node.elements[1] # Hole
     /\ node.elements[1].type = "ObjectExpression"
     /\ \E k \in 1..Len(node.elements[1].properties) :
          /\ node.elements[1].properties[k].type = "ObjectProperty"
          /\ node.elements[1].properties[k].key.type = "Identifier"
          /\ includes(node.elements[1].properties[k].key.name, PLACEHOLDER)
     /\ has(st, "isStage")
    THEN assign(st, "isStage", TRUE)
    ELSE st

_checkIsStage(node, st) ==
  LET property(item, s) ==
        IF /\ item.type = "ObjectProperty"
           /\ item.key.type = "Identifier"
           /\ includes(item.key.name, PLACEHOLDER)
           /\ has(s, "isStage")
          THEN assign(s, "isStage", TRUE)
          ELSE s
      element(item, s) ==
        IF item # Hole /\ item.type = "ObjectExpression"
          THEN LET inItem[i \in 0..Len(item.properties)] ==
                     IF i = 0 THEN s ELSE property(item.properties[i], inItem[i - 1])
               IN  inItem[Len(item.properties)]
          ELSE s
      after[i \in 0..Len(node.elements)] ==
        IF i = 0 THEN st ELSE element(node.elements[i], after[i - 1])
  IN  after[Len(node.elements)]

\* the check looking at the properties of the inner object only, not deeper
_checkIsStageOperator_shallow(node, st) ==
  LET inner(n, s2, name) ==
        IF /\ n.type = "ObjectProperty"
           /\ n.key.type = "Identifier"
           /\ includes(n.key.name, PLACEHOLDER)
           /\ has(s2, "stageOperator")
          THEN assign(s2, "stageOperator", JSString(name))
          ELSE s2
      property(item, s) ==
        IF /\ item.type = "ObjectProperty"
           /\ item.key.type = "Identifier"
           /\ item.value.type = "ObjectExpression"
          THEN LET inside[i \in 0..Len(item.value.properties)] ==
                     IF i = 0 THEN s
                     ELSE inner(item.value.properties[i], inside[i - 1], item.key.name)
               IN  inside[Len(item.value.properties)]
          ELSE s
      element(item, s) ==
        IF item # Hole /\ item.type = "ObjectExpression"
          THEN LET inItem[i \in 0..Len(item.properties)] ==
                     IF i = 0 THEN s ELSE property(item.properties[i], inItem[i - 1])
               IN  inItem[Len(item.properties)]
          ELSE s
      after[i \in 0..Len(node.elements)] ==
        IF i = 0 THEN st ELSE element(node.elements[i], after[i - 1])
  IN  IF node.type = "ArrayExpression"
        THEN after[Len(node.elements)]
        ELSE st

_checkIsStageOperator(node, st) ==
  LET property(item, s) ==
        IF /\ item.type = "ObjectProperty"
           /\ item.key.type = "Identifier"
           /\ item.value.type = "ObjectExpression"
          THEN LET name == item.key.name
                   inner(n, s2) ==
                     IF /\ n.type = "ObjectProperty"
                        /\ n.key.type = "Identifier"
                        /\ includes(n.key.name, PLACEHOLDER)
                        /\ has(s2, "stageOperator")
                       THEN assign(s2, "stageOperator", JSString(name))
                       ELSE s2
                   inside[i \in 0..Len(traverse(item))] ==
                     IF i = 0 THEN s ELSE inner(traverse(item)[i], inside[i - 1])
               IN  inside[Len(traverse(item))]
          ELSE s
      element(item, s) ==
        IF item # Hole /\ item.type = "ObjectExpression"
          THEN LET inItem[i \in 0..Len(item.properties)] ==
                     IF i = 0 THEN s ELSE property(item.properties[i], inItem[i - 1])
               IN  inItem[Len(item.properties)]
          ELSE s
      after[i \in 0..Len(node.elements)] ==
        IF i = 0 THEN st ELSE element(node.elements[i], after[i - 1])
  IN  IF node.type = "ArrayExpression"
        THEN after[Len(node.elements)]
        ELSE st

_visitArrayExpression(node, st) ==
  IF node.type = "ArrayExpression"
    THEN _checkIsStageOperator(node, _checkIsStage(node, st))
    ELSE st

-----------------------------------------------------------------------------
(* Selection geometry *)

\* a number used as a condition: true unless it is 0
Truthy(n) == n # 0

\* object.field is not undefined
Present(object, field) == field \in DOMAIN object

\* every line comparison of the helper on the unadjusted parser line
_isParentAroundSelection_unadjusted(node, sel) ==
  IF ~(/\ Present(node, "loc")
       /\ Present(node.loc, "start")
       /\ Truthy(node.loc.start.line))
    THEN Returns(FALSE)
  ELSE IF ~Present(sel, "start") THEN Throws
  ELSE IF ~(\/ node.loc.start.line < sel.start.line
            \/ /\ node.loc.start.line = sel.start.line
               /\ node.loc.start.column < sel.start.character)
    THEN Returns(FALSE)
  ELSE IF ~Present(node.loc, "end") THEN Throws
  ELSE IF ~Truthy(node.loc.end.line) THEN Returns(FALSE)
  ELSE IF ~Present(sel, "end") THEN Throws
  ELSE Returns(\/ node.loc.end.line > sel.end.line
               \/ /\ node.loc.end.line = sel.end.line
                  /\ node.loc.end.column > sel.end.character)

\* node.loc?.start?.line guards the node's start alone: the selection's
\* start, the node's end and the selection's end are read without a guard,
\* and reading a field of undefined throws a TypeError
_isParentAroundSelection(node, sel) ==
  IF ~(/\ Present(node, "loc")
       /\ Present(node.loc, "start")
       /\ Truthy(node.loc.start.line))
    THEN Returns(FALSE)
  ELSE IF ~Present(sel, "start") THEN Throws
  ELSE IF ~(\/ node.loc.start.line - 1 < sel.start.line
            \/ /\ node.loc.start.line - 1 = sel.start.line
               /\ node.loc.start.column < sel.start.character)
    THEN Returns(FALSE)
  ELSE IF ~Present(node.loc, "end") THEN Throws
  ELSE IF ~Truthy(node.loc.end.line) THEN Returns(FALSE)
  ELSE IF ~Present(sel, "end") THEN Throws
  ELSE Returns(\/ node.loc.end.line - 1 > sel.end.line
               \/ /\ node.loc.end.line - 1 = sel.end.line
                  /\ node.loc.end.column > sel.end.character)

\* a comparison of a number with the undefined this._selection.start?.line
\* is false
_isObjectPropBeforeSelection(node, sel) ==
  Returns(/\ Present(node.key, "loc")
          /\ Present(node.key.loc, "end")
          /\ Present(sel, "start")
          /\ \/ node.key.loc.end.line - 1 < sel.start.line
             \/ /\ node.key.loc.end.line - 1 = sel.start.line
                /\ node.key.loc.end.column < sel.start.character)

_isVariableIdentifierBeforeSelection(node, sel) ==
  Returns(/\ Present(node.id, "loc")
          /\ Present(node.id.loc, "end")
          /\ Present(sel, "start")
          /\ \/ node.id.loc.end.line - 1 < sel.start.line
             \/ /\ node.id.loc.end.line - 1 = sel.start.line
                /\ node.id.loc.end.column < sel.start.character)

_isWithinSelection(node, sel) ==
  Returns(/\ Present(node, "loc")
          /\ Present(node.loc, "start")
          /\ Truthy(node.loc.start.line)
          /\ Present(sel, "start")
          /\ node.loc.start.line - 1 = sel.start.line
          /\ Truthy(node.loc.start.column)
          /\ node.loc.start.column >= sel.start.character
          /\ Present(node.loc, "end")
          /\ Truthy(node.loc.end.line)
          /\ Present(sel, "end")
          /\ node.loc.end.line - 1 = sel.end.line
          /\ Truthy(node.loc.end.column)
          /\ node.loc.end.column <= sel.end.character)

\* the enter callback of parseAST's traversal
enter(node, st, sel) ==
  _visitArrayExpression(node,
    _visitObjectExpression(node,
      _visitExpressionStatement(node,
        _visitMemberExpression(node,
          _visitCallExpression(node, st, sel)))))

-----------------------------------------------------------------------------
(* Documents *)

Q == "\""

\* lines a document is made of
LineUseA == use \o <<"(", Q, "a", Q, ")", ";">>
LineUseB == use \o <<"(", Q, "b", Q, ")", ";">>
LineUseX == use \o <<"(", "x", ")">>
LineDb == db \o <<".">>
LineSp == sp \o <<".">>
LineDbC == db \o <<".", "c", ".">>
LineDbX == db \o <<".", "x", ";">>
LineSpX == sp \o <<".", "x", ";">>
LineNestedSp == <<"f", "(">> \o sp \o <<".", ")">>
LineDbBX == db \o <<".", "b", ".", "x", ";">>
LineSpQX == sp \o <<".", "q", ".", "x", ";">>
LineSpP == sp \o <<".", "p", ".">>
LineFind == db \o <<".", "c", ".">> \o find \o <<"(", "{", "}", ")", ".">>
LineAggregate == db \o <<".", "c", ".">> \o aggregate \o <<"(", ")", ".">>
LineComputedFind == db \o <<".", "c", "[">> \o find \o <<"]", "(", ")", ".">>
LinePipeline ==
  db \o <<".", "c", ".">> \o aggregate
     \o <<"(", "[", "{", "$", "m", "a", "t", "c", "h", ":", "{", "}", "}", "]", ")">>
LineGetCollection == db \o <<".">> \o getCollection \o <<"(", Q, Q, ")">>
LineGetCollectionTemplate ==
  db \o <<".">> \o getCollection \o <<"(", Backtick, Backtick, ")">>
LineGetCollectionTwo == db \o <<".">> \o getCollection \o <<"(", Q, Q, ",", "x", ")">>
LineGetProcessor == sp \o <<".">> \o getProcessor \o <<"(", Q, Q, ")">>
LineGetProcessorTemplate ==
  sp \o <<".">> \o getProcessor \o <<"(", Backtick, "$", "{", "x", "}", Backtick, ")">>
LineGetProcessorNone == sp \o <<".">> \o getProcessor \o <<"(", ")">>

LineHole == db \o <<".", "c", ".">> \o aggregate \o <<"(", "[", ",", "{", "}", "]", ")">>
LineSpread ==
  use \o <<"(", ".", ".", ".", "x", ",", "[", ".", ".", ".", "x", "]", ",",
           "{", ".", ".", ".", "x", "}", ")">>
LineMethod == db \o <<".", "c", ".">> \o find \o <<"(", "{", "m", "(", ")", "{", "}", "}", ")">>
LineCallCallee == use \o <<"(", ")", "(", ")">>

LineUse == use \o <<"(", Q, Q, ")">>
LineUseTemplate == use \o <<"(", Backtick, Backtick, ")">>
LineUseTwo == use \o <<"(", Q, Q, ",", "x", ")">>
LineUseQuasis == use \o <<"(", Backtick, "$", "{", "x", "}", Backtick, ")">>

LineDbString == db \o <<"[", Q, "c", Q, "]", ".">>
LineSpString == sp \o <<"[", Q, "p", Q, "]", ".">>
LineGetCollectionC == db \o <<".">> \o getCollection \o <<"(", Q, "c", Q, ")", ".">>
LineGetCollectionCTwo ==
  db \o <<".">> \o getCollection \o <<"(", Q, "c", Q, ",", "x", ")", ".">>
LineGetProcessorP == sp \o <<".">> \o getProcessor \o <<"(", Q, "p", Q, ")", ".">>

LineObject ==
  <<"f", "(", "{", "a", ":", "x", ",", "b", ":", Q, Q, ",", "c", ":",
    Backtick, Backtick, "}", ")">>
LineObjectQuasis ==
  <<"f", "(", "{", "a", ":", Backtick, "$", "{", "x", "}", Backtick, "}", ")">>

LineArray == <<"f", "(", "[", "x", ",", "{", "}", "]", ")">>
LineArrayNested == <<"f", "(", "[", "{", "a", ":", "{", "}", "}", "]", ")">>

LineOperatorIdentifier == <<"[", "{", "$", "m", ":", "{", "a", ":", "x", "}", "}", "]">>
LineOperatorString == <<"[", "{", "$", "m", ":", "{", "b", ":", Q, Q, "}", "}", "]">>
LineOperatorDeep == <<"[", "{", "$", "m", ":", "{", "c", ":", "{", "}", "}", "}", "]">>

LineOperatorArray ==
  <<"[", "{", "m", ":", "{", "o", ":", "[", "{", "a", ":", "{", "}", "}", "]", "}", "}", "]">>

LineShorthand == <<"f", "(", "{", "}", ")">>
LineKeyed == <<"f", "(", "{", ":", "x", "}", ")">>
LineValued == <<"f", "(", "{", "a", ":", "}", ")">>

LineLet == <<"l", "e", "t", " ", "x">>
LineBrokenArray == <<"f", "(", "[", NL, "{", "a", "}", "]", ")">>

\* an identifier, a string or a template of two characters in the place of
\* each check that tests for the marker
LineTypedGlobal == <<"a", "b">>
LineTypedUse == use \o <<"(", Q, "a", "b", Q, ")">>
LineTypedUseTemplate == use \o <<"(", Backtick, "a", "b", Backtick, ")">>
LineTypedName == db \o <<".", "a", "b">>
LineTypedString == db \o <<"[", Q, "a", "b", Q, "]">>
LineTypedGetCollection == db \o <<".">> \o getCollection \o <<"(", Q, "a", "b", Q, ")">>
LineTypedFind == db \o <<".", "c", ".">> \o find \o <<"(", ")", ".", "a", "b">>
LineTypedAggregate == db \o <<".", "c", ".">> \o aggregate \o <<"(", ")", ".", "a", "b">>

UseLines == {LineUseA, LineUseB, LineUseX, LineDb}
MemberLines == {LineDb, LineSp, LineDbC, LineSpP}
CursorLines == {LineFind, LineAggregate, LineComputedFind, LineUseB}
PipelineLines == {LinePipeline, LineDbC, LineUseA}
NameLines == {LineGetCollection, LineGetCollectionTemplate, LineGetCollectionTwo,
              LineGetProcessor, LineGetProcessorTemplate, LineGetProcessorNone}
ReuseLines == {LineUseA, LineDb, LineSpP}
ShapeLines == {LineUseA, LineSp, LineDbC}
NodeLines == {LineHole, LineSpread, LineMethod, LineCallCallee, LineComputedFind}
UseCallLines == {LineUse, LineUseTemplate, LineUseTwo, LineUseQuasis, LineUseX, LineGetCollection}
StatementLines == {LineDb, LineSp, LineDbC, LineSpP, LineUseA, <<>>}
NamedLines ==
  {LineDbC, LineSpP, LineDbString, LineSpString, LineGetCollectionC,
   LineGetCollectionCTwo, LineGetProcessorP}
ObjectLines == {LineObject, LineObjectQuasis, LineMethod}
StageLines == {LineArray, LineArrayNested, LineHole, LinePipeline}
OperatorLines ==
  {LineOperatorIdentifier, LineOperatorString, LineOperatorDeep, LinePipeline}
GeometryLines == {LineLet, LineBrokenArray, LineUseA}
IncompleteLines == {LineLet, LineBrokenArray}
FamilyLines == {LineDbX, LineSpX, LineDbC, LineSpP}
WriterLines == {LineDbC, LineDbBX, LineSpQX, LineGetCollectionC}
UnrelatedLines == {LineDbX, LineSpX, LineUseA, <<>>}
SymmetricLines == {LineSp, LineSpX, LineNestedSp}
NestedLines == {LineOperatorArray, LineOperatorDeep, LineOperatorIdentifier}
ShorthandLines == {LineShorthand, LineKeyed, LineValued}
DirectLines == {LineUseA, LineDbX, LineSp}
TypedLines ==
  {LineTypedGlobal, LineTypedUse, LineTypedUseTemplate, LineTypedName, LineTypedString,
   LineTypedGetCollection, LineTypedFind, LineTypedAggregate}
AllLines ==
  UseLines \cup MemberLines \cup CursorLines \cup PipelineLines \cup NameLines
    \cup {<<>>}

\* the documents of at most n lines taken from lines
Documents(lines, n) ==
  {join(d) : d \in UNION {[1..k -> lines] : k \in 1..n}}

\* cursor positions: every line of the text and the line after the last,
\* every character of the line and one past its end
Positions(t) ==
  LET textLines == split(t)
  IN  UNION {{[line |-> l, character |-> ch] :
                ch \in 0..((IF l < Len(textLines) THEN Len(textLines[l + 1]) ELSE 0) + 1)} :
             l \in 0..Len(textLines)}

-----------------------------------------------------------------------------
(* The editors controller *)

\* the connection ids and namespaces a command is given
ConnectionIds == {JSString("c1"), JSString("c2")}
Namespaces == {"d.a"}

\* an operation as the store creates it; the limit is counted in steps of
\* increase, the first being 1
NewOperation == [documentLimit |-> 1, isCurrentlyFetchingMoreDocuments |-> FALSE]

\* this._collectionDocumentsOperationsStore.createNewOperation(): the
\* operations with one more, its id the next number
createNewOperation(ops) == Append(ops, NewOperation)

\* this._collectionDocumentsOperationsStore.increaseOperationDocumentLimit(id)
increaseOperationDocumentLimit(ops, operationId) ==
  [ops EXCEPT ![operationId].documentLimit = @ + 1]

\* getViewCollectionDocumentsUri(operationId, namespace, connectionId)
getViewCollectionDocumentsUri(operationId, namespace, connectionId) ==
  [operationId |-> operationId, namespace |-> namespace, connectionId |-> connectionId]

\* the messages of vscode.window.showErrorMessage
AlreadyFetching == "Already fetching more documents..."
NoLongerConnected == "Unable to view more documents: no longer connected"
NoMessage == ""

\* a call of onViewMoreCollectionDocuments and what became of it: the
\* promise's value or its rejection, and the error message shown
Outcome(operationId, connectionId, namespace, settled, message) ==
  [operationId |-> operationId, connectionId |-> connectionId, namespace |-> namespace,
   rejected |-> settled.threw, value |-> settled.value, message |-> message]

NoCall == [rejected |-> FALSE, value |-> FALSE, message |-> NoMessage]

\* new EditorsController(...): an empty store, the provider created, and
\* no connection yet
NewEditorsController ==
  /\ operations = <<>>
  /\ _collectionViewProvider = TRUE
  /\ activeConnectionId = JSNull
  /\ fired = <<>>
  /\ resolved = NoCall

\* onViewCollectionDocuments(namespace): a new operation in the store
onViewCollectionDocuments ==
  /\ Len(operations) < MaxOperations
  /\ operations' = createNewOperation(operations)
  /\ UNCHANGED <<_collectionViewProvider, activeConnectionId, fired, resolved>>
  /\ UNCHANGED <<pc, text, position, injected, ast, next, _state, _selection, returned,
                 sameObject, requests>>

\* the provider starts or ends a fetch of the operation's documents
ProviderFetches ==
  /\ \E operationId \in DOMAIN operations :
       operations' =
         [operations EXCEPT ![operationId].isCurrentlyFetchingMoreDocuments = ~@]
  /\ UNCHANGED <<_collectionViewProvider, activeConnectionId, fired, resolved>>
  /\ UNCHANGED <<pc, text, position, injected, ast, next, _state, _selection, returned,
                 sameObject, requests>>

\* the connection controller connects, reconnects or disconnects
ConnectionChanges ==
  /\ \E id \in ConnectionIds \cup {JSNull} :
       /\ id # activeConnectionId
       /\ activeConnectionId' = id
  /\ UNCHANGED <<operations, _collectionViewProvider, fired, resolved>>
  /\ UNCHANGED <<pc, text, position, injected, ast, next, _state, _selection, returned,
                 sameObject, requests>>

\* the command with the connection test before the fetching test
onViewMoreCollectionDocuments_connectionFirst ==
  /\ \E operationId \in DOMAIN operations :
       \E connectionId \in ConnectionIds : \E namespace \in Namespaces :
         IF connectionId # activeConnectionId
           THEN /\ resolved' = Outcome(operationId, connectionId, namespace,
                                       Returns(FALSE), NoLongerConnected)
                /\ UNCHANGED <<operations, fired>>
         ELSE IF operations[operationId].isCurrentlyFetchingMoreDocuments
           THEN /\ resolved' = Outcome(operationId, connectionId, namespace,
                                       Returns(FALSE), AlreadyFetching)
                /\ UNCHANGED <<operations, fired>>
         ELSE IF ~_collectionViewProvider
           THEN /\ resolved' = Outcome(operationId, connectionId, namespace,
                                       [threw |-> TRUE, value |-> FALSE], NoMessage)
                /\ UNCHANGED <<operations, fired>>
         ELSE /\ Len(fired) < MaxFired
              /\ operations' = increaseOperationDocumentLimit(operations, operationId)
              /\ fired' = Append(fired, getViewCollectionDocumentsUri(operationId,
                                          namespace, connectionId))
              /\ resolved' = Outcome(operationId, connectionId, namespace,
                                     Returns(TRUE), NoMessage)
  /\ UNCHANGED <<_collectionViewProvider, activeConnectionId>>
  /\ UNCHANGED <<pc, text, position, injected, ast, next, _state, _selection, returned,
                 sameObject, requests>>

\* onViewMoreCollectionDocuments(operationId, connectionId, namespace), on
\* an operation of the store
onViewMoreCollectionDocuments ==
  /\ \E operationId \in DOMAIN operations :
       \E connectionId \in ConnectionIds : \E namespace \in Namespaces :
         IF operations[operationId].isCurrentlyFetchingMoreDocuments
           THEN /\ resolved' = Outcome(operationId, connectionId, namespace,
                                       Returns(FALSE), AlreadyFetching)
                /\ UNCHANGED <<operations, fired>>
         ELSE IF connectionId # activeConnectionId
           THEN /\ resolved' = Outcome(operationId, connectionId, namespace,
                                       Returns(FALSE), NoLongerConnected)
                /\ UNCHANGED <<operations, fired>>
         ELSE IF ~_collectionViewProvider
           THEN /\ resolved' = Outcome(operationId, connectionId, namespace,
                                       [threw |-> TRUE, value |-> FALSE], NoMessage)
                /\ UNCHANGED <<operations, fired>>
         ELSE /\ Len(fired) < MaxFired
              /\ operations' = increaseOperationDocumentLimit(operations, operationId)
              /\ fired' = Append(fired, getViewCollectionDocumentsUri(operationId,
                                          namespace, connectionId))
              /\ resolved' = Outcome(operationId, connectionId, namespace,
                                     Returns(TRUE), NoMessage)
  /\ UNCHANGED <<_collectionViewProvider, activeConnectionId>>
  /\ UNCHANGED <<pc, text, position, injected, ast, next, _state, _selection, returned,
                 sameObject, requests>>

\* the commands of the editors controller and what happens around them
NextEditors ==
  \/ onViewCollectionDocuments
  \/ ProviderFetches
  \/ ConnectionChanges
  \/ onViewMoreCollectionDocuments

-----------------------------------------------------------------------------
(* The visitor *)

NoSelection ==
  [start |-> [line |-> 0, character |-> 0], end |-> [line |-> 0, character |-> 0]]

\* new Visitor()
Init ==
  /\ pc = "idle"
  /\ text = <<>>
  /\ position = [line |-> 0, character |-> 0]
  /\ injected = <<>>
  /\ ast = NoAst
  /\ next = 1
  /\ _state = <<>>
  /\ _selection = NoSelection
  /\ returned = <<>>
  /\ sameObject = FALSE
  /\ requests = 0
  /\ NewEditorsController

\* the request that keeps the state of the request before it
Call_keepState(docs) ==
  /\ \E t \in docs : \E p \in Positions(t) :
       LET r == _handleTriggerCharacter(t, p)
       IN  /\ text' = t
           /\ position' = p
           /\ _state' = IF requests = 0 THEN _getDefaultsForCompletion ELSE _state
           /\ injected' = r.value
           /\ pc' = IF r.threw THEN "thrown" ELSE "parse"
           /\ _selection' = IF r.threw THEN _selection
                            ELSE [start |-> p, end |-> [line |-> 0, character |-> 0]]
  /\ ast' = NoAst
  /\ next' = 1
  /\ requests' = requests + 1
  /\ UNCHANGED returned
  /\ UNCHANGED sameObject
  /\ UNCHANGED editorVars

\* this.parseASTForCompletion(textFromEditor, position), from its entry to
\* parseAST's call of the parser: a fresh state, the marker spliced in (which
\* may throw), the selection stored
Call(docs) ==
  /\ \E t \in docs : \E p \in Positions(t) :
       LET r == _handleTriggerCharacter(t, p)
       IN  /\ text' = t
           /\ position' = p
           /\ _state' = _getDefaultsForCompletion
           /\ injected' = r.value
           /\ pc' = IF r.threw THEN "thrown" ELSE "parse"
           /\ _selection' = IF r.threw THEN _selection
                            ELSE [start |-> p, end |-> [line |-> 0, character |-> 0]]
  /\ ast' = NoAst
  /\ next' = 1
  /\ requests' = requests + 1
  /\ UNCHANGED returned
  /\ sameObject' = FALSE
  /\ UNCHANGED editorVars

\* the first request served by a new Visitor
parseASTForCompletion(docs) ==
  /\ pc = "idle"
  /\ Call(docs)

\* a later request served by the same Visitor
parseASTForCompletionAgain(docs) ==
  /\ pc \in {"done", "thrown"}
  /\ requests < MaxRequests
  /\ Call(docs)

\* the shapes of state object a caller gives the Visitor: the full
\* CompletionState, the NamespaceState, the empty object of the
\* constructor, and every single field of the CompletionState
NamespaceFields == {"databaseName", "collectionName"}

StateShapes ==
  {DOMAIN _getDefaultsForCompletion, NamespaceFields, {}}
    \cup {{f} : f \in DOMAIN _getDefaultsForCompletion}

\* a caller stores a state object of some shape in this._state and calls
\* this.parseAST({ textFromEditor, selection }) itself, on a text that holds
\* the marker
parseASTWithState(docs) ==
  /\ pc = "idle"
  /\ \E t \in docs : \E p \in Positions(t) : \E shape \in StateShapes :
       LET r == _handleTriggerCharacter(t, p)
       IN  /\ ~r.threw
           /\ text' = t
           /\ position' = p
           /\ injected' = r.value
           /\ _state' = [f \in shape |-> _getDefaultsForCompletion[f]]
           /\ _selection' = [start |-> p, end |-> [line |-> 0, character |-> 0]]
  /\ pc' = "parse"
  /\ ast' = NoAst
  /\ next' = 1
  /\ requests' = requests + 1
  /\ UNCHANGED returned
  /\ sameObject' = FALSE
  /\ UNCHANGED editorVars

\* the selections of a text: every pair of cursor positions, start and end
Selections(t) ==
  {[start |-> from, end |-> to] : from \in Positions(t), to \in Positions(t)}

\* a caller stores a fresh state and calls
\* this.parseAST({ textFromEditor, selection }) with a selection of its own
parseASTSelection(docs) ==
  /\ pc = "idle"
  /\ \E t \in docs : \E sel \in Selections(t) :
       /\ text' = t
       /\ injected' = t
       /\ position' = sel.start
       /\ _selection' = sel
  /\ _state' = _getDefaultsForCompletion
  /\ pc' = "parse"
  /\ ast' = NoAst
  /\ next' = 1
  /\ requests' = requests + 1
  /\ UNCHANGED returned
  /\ sameObject' = FALSE
  /\ UNCHANGED editorVars

\* a caller that holds the state a request returned calls
\* this.parseAST({ textFromEditor, selection }) itself: this._state is not
\* replaced
parseASTDirect(docs) ==
  /\ pc = "done"
  /\ requests < MaxRequests
  /\ \E t \in docs : \E p \in Positions(t) :
       /\ text' = t
       /\ injected' = t
       /\ position' = p
       /\ _selection' = [start |-> p, end |-> [line |-> 0, character |-> 0]]
  /\ pc' = "parse"
  /\ ast' = NoAst
  /\ next' = 1
  /\ requests' = requests + 1
  /\ UNCHANGED <<_state, returned, sameObject>>
  /\ UNCHANGED editorVars

\* the answer of a selection helper: the helper, the node, and the value it
\* returned or the exception it threw
Answer(helper, node, outcome) ==
  [helper |-> helper, node |-> node, threw |-> outcome.threw, value |-> outcome.value]

\* a helper is called on a node of the tree parseAST has traversed
Asked(answer) ==
  /\ pc = "done"
  /\ returned' = answer
  /\ pc' = "answered"
  /\ UNCHANGED <<text, position, injected, ast, next, _state, _selection, requests>>
  /\ sameObject' = FALSE
  /\ UNCHANGED editorVars

\* this._isParentAroundSelection(node)
IsParentAroundSelection ==
  \E n \in NodesIn(ast) :
    /\ n.type \in {"ArrayExpression", "CallExpression"}
    /\ Asked(Answer("_isParentAroundSelection", n,
                    _isParentAroundSelection(n, _selection)))

\* this._isObjectPropBeforeSelection(node)
IsObjectPropBeforeSelection ==
  \E n \in NodesIn(ast) :
    /\ n.type = "ObjectProperty"
    /\ Asked(Answer("_isObjectPropBeforeSelection", n,
                    _isObjectPropBeforeSelection(n, _selection)))

\* this._isVariableIdentifierBeforeSelection(node)
IsVariableIdentifierBeforeSelection ==
  \E n \in NodesIn(ast) :
    /\ n.type = "VariableDeclarator"
    /\ Asked(Answer("_isVariableIdentifierBeforeSelection", n,
                    _isVariableIdentifierBeforeSelection(n, _selection)))

\* this._isWithinSelection(node)
IsWithinSelection ==
  \E n \in NodesIn(ast) :
    /\ n.type \in {"ArrayExpression", "ObjectExpression"}
    /\ Asked(Answer("_isWithinSelection", n, _isWithinSelection(n, _selection)))

\* object without its field: the field reads as undefined
without(object, field) == [f \in DOMAIN object \ {field} |-> object[f]]

\* the selections of a text with a position left out: the start, the end,
\* or both
PartialSelections(t) ==
  UNION {{without(sel, "start"), without(sel, "end"),
          without(without(sel, "start"), "end")} : sel \in Selections(t)}

\* a caller stores a fresh state and calls
\* this.parseAST({ textFromEditor, selection }) with a selection that is
\* whole or has a position left out
parseASTPartialSelection(docs) ==
  /\ pc = "idle"
  /\ \E t \in docs : \E sel \in Selections(t) \cup PartialSelections(t) :
       /\ text' = t
       /\ injected' = t
       /\ _selection' = sel
  /\ _state' = _getDefaultsForCompletion
  /\ pc' = "parse"
  /\ ast' = NoAst
  /\ next' = 1
  /\ requests' = requests + 1
  /\ UNCHANGED <<position, returned>>
  /\ sameObject' = FALSE
  /\ UNCHANGED editorVars

\* a node as a caller may hand it to a helper: as the parser built it,
\* without loc, or with a loc that lacks its start or its end
Incomplete(node) ==
  {node, without(node, "loc"),
   [node EXCEPT !.loc = without(node.loc, "start")],
   [node EXCEPT !.loc = without(node.loc, "end")]}

\* this._isParentAroundSelection(node) on a node that may be incomplete
IsParentAroundSelectionIncomplete ==
  \E n \in NodesIn(ast) : \E m \in Incomplete(n) :
    /\ n.type \in {"ArrayExpression", "CallExpression"}
    /\ Asked(Answer("_isParentAroundSelection", m,
                    _isParentAroundSelection(m, _selection)))

\* this._isObjectPropBeforeSelection(node) on a property whose key may be
\* incomplete
IsObjectPropBeforeSelectionIncomplete ==
  \E n \in NodesIn(ast) :
    /\ n.type = "ObjectProperty"
    /\ \E key \in Incomplete(n.key) :
         Asked(Answer("_isObjectPropBeforeSelection", [n EXCEPT !.key = key],
                      _isObjectPropBeforeSelection([n EXCEPT !.key = key], _selection)))

\* this._isVariableIdentifierBeforeSelection(node) on a declarator whose id
\* may be incomplete
IsVariableIdentifierBeforeSelectionIncomplete ==
  \E n \in NodesIn(ast) :
    /\ n.type = "VariableDeclarator"
    /\ \E id \in Incomplete(n.id) :
         Asked(Answer("_isVariableIdentifierBeforeSelection", [n EXCEPT !.id = id],
                      _isVariableIdentifierBeforeSelection([n EXCEPT !.id = id],
                                                           _selection)))

\* this._isWithinSelection(node) on a node that may be incomplete
IsWithinSelectionIncomplete ==
  \E n \in NodesIn(ast) : \E m \in Incomplete(n) :
    /\ n.type \in {"ArrayExpression", "ObjectExpression"}
    /\ Asked(Answer("_isWithinSelection", m, _isWithinSelection(m, _selection)))

\* parseAST without its try/catch: the parser's exception propagates
parseAST_uncaught ==
  /\ pc = "parse"
  /\ ast' = parse(injected)
  /\ next' = 1
  /\ pc' = IF parse(injected) = NoAst THEN "thrown" ELSE "traverse"
  /\ UNCHANGED <<text, position, injected, _state, _selection, returned, requests>>
  /\ UNCHANGED sameObject
  /\ UNCHANGED editorVars

\* parseAST: the parser runs inside try/catch
parseAST ==
  /\ pc = "parse"
  /\ ast' = parse(injected)
  /\ next' = 1
  /\ pc' = "traverse"
  /\ UNCHANGED <<text, position, injected, _state, _selection, returned, requests>>
  /\ UNCHANGED sameObject
  /\ UNCHANGED editorVars

\* one call of the traversal's enter callback
Enter ==
  /\ pc = "traverse"
  /\ next <= Len(traverse(ast))
  /\ _state' = enter(traverse(ast)[next], _state, _selection)
  /\ next' = next + 1
  /\ UNCHANGED <<pc, text, position, injected, ast, _selection, requests>>
  /\ returned' = IF sameObject THEN _state' ELSE returned
  /\ UNCHANGED sameObject
  /\ UNCHANGED editorVars

\* the traversal is over: parseASTForCompletion returns this._state, the
\* object itself (after a call of parseAST alone nothing is returned, and
\* the object returned before is this._state still)
Return ==
  /\ pc = "traverse"
  /\ next > Len(traverse(ast))
  /\ returned' = _state
  /\ pc' = "done"
  /\ UNCHANGED <<text, position, injected, ast, next, _state, _selection, requests>>
  /\ sameObject' = TRUE
  /\ UNCHANGED editorVars

\* one request on a new Visitor
Next(docs) ==
  \/ parseASTForCompletion(docs)
  \/ parseAST
  \/ Enter
  \/ Return

\* any number of requests on one Visitor
NextReuse(docs) ==
  \/ parseASTForCompletion(docs)
  \/ parseASTForCompletionAgain(docs)
  \/ parseAST
  \/ Enter
  \/ Return

\* parseAST called on a state object of the caller's
NextShape(docs) ==
  \/ parseASTWithState(docs)
  \/ parseAST
  \/ Enter
  \/ Return

\* parseAST called with a selection, then the selection helpers on the
\* nodes of its tree
NextGeometry(docs) ==
  \/ parseASTSelection(docs)
  \/ parseAST
  \/ Enter
  \/ Return
  \/ IsParentAroundSelection
  \/ IsObjectPropBeforeSelection
  \/ IsVariableIdentifierBeforeSelection
  \/ IsWithinSelection

\* parseAST called with a whole or partial selection, then the selection
\* helpers on whole or incomplete nodes of its tree
NextIncomplete(docs) ==
  \/ parseASTPartialSelection(docs)
  \/ parseAST
  \/ Enter
  \/ Return
  \/ IsParentAroundSelectionIncomplete
  \/ IsObjectPropBeforeSelectionIncomplete
  \/ IsVariableIdentifierBeforeSelectionIncomplete
  \/ IsWithinSelectionIncomplete

\* one request on a new Visitor, or one call of parseAST on the text as it is
NextTyped(docs) ==
  \/ parseASTForCompletion(docs)
  \/ parseASTSelection(docs)
  \/ parseAST
  \/ Enter
  \/ Return

\* requests on one Visitor, and parseAST called on it between them
NextDirect(docs) ==
  \/ parseASTForCompletion(docs)
  \/ parseASTForCompletionAgain(docs)
  \/ parseASTDirect(docs)
  \/ parseAST
  \/ Enter
  \/ Return

\* documents over every line of the catalogue
Spec == Init /\ [][Next(Documents(AllLines, MaxBroadLines))]_vars

\* documents around use(...) calls
SpecUse == Init /\ [][Next(Documents(UseLines, MaxLines))]_vars

\* documents around db. and sp. member accesses
SpecMember == Init /\ [][Next(Documents(MemberLines, MaxLines))]_vars

\* documents around find() and aggregate() cursors
SpecCursor == Init /\ [][Next(Documents(CursorLines, MaxLines))]_vars

\* documents around aggregation pipelines
SpecPipeline == Init /\ [][Next(Documents(PipelineLines, MaxLines))]_vars

\* documents around getCollection() and getProcessor() calls
SpecNames == Init /\ [][Next(Documents(NameLines, MaxBroadLines))]_vars

\* one Visitor serving request after request
SpecReuse == Init /\ [][NextReuse(Documents(ReuseLines, MaxBroadLines))]_vars

\* documents with holes, spread elements, object methods, calls of calls
SpecNode == Init /\ [][Next(Documents(NodeLines, MaxBroadLines))]_vars

\* documents around the argument of use(...)
SpecUseCall == Init /\ [][Next(Documents(UseCallLines, MaxBroadLines))]_vars

\* documents of expression statements of several shapes
SpecStatement == Init /\ [][Next(Documents(StatementLines, MaxBroadLines))]_vars

\* documents that name a collection or a stream processor before the cursor
SpecNamed == Init /\ [][Next(Documents(NamedLines, MaxBroadLines))]_vars

\* documents with object expressions of several properties
SpecObject == Init /\ [][Next(Documents(ObjectLines, MaxBroadLines))]_vars

\* documents with arrays inside and outside of an aggregate call
SpecStage == Init /\ [][Next(Documents(StageLines, MaxBroadLines))]_vars

\* documents with a stage whose inner object has keys, values and depth
SpecOperator == Init /\ [][Next(Documents(OperatorLines, MaxBroadLines))]_vars

\* selections over three texts: a declaration, a use call, and a call whose
\* array argument continues on a second line
SpecGeometry == Init /\ [][NextGeometry(GeometryLines)]_vars

\* partial selections and incomplete nodes over two texts without a use
\* call: a declaration, and a call whose array argument continues on a
\* second line
SpecIncomplete == Init /\ [][NextIncomplete(IncompleteLines)]_vars

\* texts with a word typed where a check looks for the marker, the cursor
\* anywhere in them, and the same texts parsed without a marker
SpecTyped == Init /\ [][NextTyped(TypedLines)]_vars

\* documents with a complete db or sp statement next to an open member
\* access
SpecFamilies == Init /\ [][Next(Documents(FamilyLines, MaxLines))]_vars

\* the editors controller: operations are created, fetched and asked for
\* more documents while the connection changes
SpecEditors == Init /\ [][NextEditors]_vars

\* documents that name collections and stream processors on several lines,
\* before and after the cursor
SpecWriters == Init /\ [][Next(Documents(WriterLines, MaxLines))]_vars

\* documents with complete db and sp statements and the cursor on any
\* line, an empty one among them
SpecUnrelated == Init /\ [][Next(Documents(UnrelatedLines, MaxLines))]_vars

\* documents with sp.<CURSOR> as a statement and as the argument of a call
SpecSymmetric == Init /\ [][Next(Documents(SymmetricLines, MaxLines))]_vars

\* pipelines whose stage holds an object, an identifier, or an array of
\* objects of its own
SpecNested == Init /\ [][Next(NestedLines)]_vars

\* objects the cursor is alone in, or the key of, or the value of
SpecShorthand == Init /\ [][Next(Documents(ShorthandLines, MaxLines))]_vars

\* one Visitor serving requests and direct calls of parseAST
SpecDirect == Init /\ [][NextDirect(Documents(DirectLines, MaxBroadLines))]_vars

\* parseAST on state objects of every shape
SpecShape == Init /\ [][NextShape(Documents(ShapeLines, MaxBroadLines))]_vars

-----------------------------------------------------------------------------
(* The injector alone, on every short text *)

InjectTexts == UNION {[1..n -> {"a", "b", NL}] : n \in 0..MaxTextLen}

InitInject ==
  /\ pc = "idle"
  /\ text \in InjectTexts
  /\ position \in Positions(text)
  /\ injected = <<>>
  /\ ast = NoAst
  /\ next = 1
  /\ _state = <<>>
  /\ _selection = NoSelection
  /\ returned = <<>>
  /\ sameObject = FALSE
  /\ requests = 0
  /\ NewEditorsController

\* this._handleTriggerCharacter(textFromEditor, position)
Inject ==
  /\ pc = "idle"
  /\ LET r == _handleTriggerCharacter(text, position)
     IN  /\ injected' = r.value
         /\ pc' = IF r.threw THEN "thrown" ELSE "injected"
  /\ UNCHANGED <<text, position, ast, next, _state, _selection, returned, requests>>
  /\ UNCHANGED sameObject
  /\ UNCHANGED editorVars

SpecInject == InitInject /\ [][Inject]_vars

-----------------------------------------------------------------------------
(* Properties *)

\* C1: when the marker-injected text fails to parse, the request ends with
\* the all-defaults state, and the only exception a request can end with
\* is the injector's: none leaves parseAST.
C1_ParseFailureYieldsDefaults ==
  /\ (pc \in {"traverse", "done"} /\ parse(injected) = NoAst) =>
       _state = _getDefaultsForCompletion
  /\ (pc = "done" /\ parse(injected) = NoAst) =>
       returned = _getDefaultsForCompletion
  /\ pc = "thrown" => _handleTriggerCharacter(text, position).threw

\* C1 witness: a cursor before "db." gives TRIGGER_CHARACTERdb., which does
\* not parse
C1_Witness ==
  /\ pc = "done"
  /\ text = LineDb
  /\ position = [line |-> 0, character |-> 0]
  /\ ast = NoAst
  /\ returned = _getDefaultsForCompletion

\* C2 as claimed: parseASTForCompletion never throws, whatever the text and
\* the position
C2_NeverThrows == pc # "thrown"

\* number of line breaks in t
LineBreaks(t) == Cardinality({i \in 1..Len(t) : t[i] = NL})

\* number of characters of t before its line l (0-based): the offset after
\* the l-th line break
LineOffset(t, l) ==
  IF l = 0 THEN 0
  ELSE CHOOSE i \in 1..Len(t) :
         t[i] = NL /\ Cardinality({j \in 1..i : t[j] = NL}) = l

\* number of characters of line l (0-based) of t
LineLength(t, l) ==
  LET from == LineOffset(t, l)
  IN  CHOOSE n \in 0..(Len(t) - from) :
        /\ \A j \in (from + 1)..(from + n) : t[j] # NL
        /\ from + n = Len(t) \/ t[from + n + 1] = NL

\* the cursor's line is a line of the text
CursorInText == position.line <= LineBreaks(text)

\* number of characters of the text before the cursor, the cursor clamped
\* to the end of its line
CursorOffset ==
  LineOffset(text, position.line)
    + (IF position.character > LineLength(text, position.line)
         THEN LineLength(text, position.line)
         ELSE position.character)

\* every node of the tree under node, node included
RECURSIVE NodesOf(_)
NodesOf(node) ==
  {node} \cup UNION {NodesOf(SubNodes(node)[i]) : i \in 1..Len(SubNodes(node))}

\* the nodes of the parsed text
Tree == IF ast = NoAst THEN {} ELSE NodesOf(ast.program)

\* the request has returned the state of a text that parsed
Finished == pc = "done" /\ ast # NoAst

\* use(<one string literal>)
IsUseCall(n) ==
  /\ n.type = "CallExpression"
  /\ n.callee.type = "Identifier"
  /\ n.callee.name = use
  /\ Len(n.arguments) = 1
  /\ n.arguments[1].type = "StringLiteral"

\* n ends on a line before the cursor's, or on the cursor's line at or
\* before the cursor's character
EndsBeforeCursor(n) ==
  \/ n.loc.end.line - 1 < position.line
  \/ n.loc.end.line - 1 = position.line /\ n.loc.end.column <= position.character

\* a ends no later than b
EndsNoLater(a, b) ==
  \/ a.loc.end.line < b.loc.end.line
  \/ a.loc.end.line = b.loc.end.line /\ a.loc.end.column <= b.loc.end.column

UseCallsBeforeCursor == {n \in Tree : IsUseCall(n) /\ EndsBeforeCursor(n)}

\* C3: the returned databaseName is the argument of the use(<string>) call
\* that ends last among those ending before the cursor, and null when no
\* use(<string>) call ends before the cursor.
C3_DatabaseNameIsLastUseBeforeCursor ==
  Finished =>
    IF UseCallsBeforeCursor = {}
      THEN returned.databaseName = JSNull
      ELSE \E last \in UseCallsBeforeCursor :
             /\ \A n \in UseCallsBeforeCursor : EndsNoLater(n, last)
             /\ returned.databaseName = JSString(last.arguments[1].value)

\* C3 witness: use("a") and use("b") both end before the cursor
C3_Witness ==
  /\ Finished
  /\ text = join(<<LineUseA, LineUseB>>)
  /\ position = [line |-> 1, character |-> 9]
  /\ Cardinality(UseCallsBeforeCursor) = 2
  /\ returned.databaseName = JSString(<<"b">>)

\* C8: with the cursor's line inside the text, _handleTriggerCharacter does
\* not throw and returns the text with PLACEHOLDER inserted at the cursor
\* and nothing else changed: the same number of lines, every character
\* before the cursor and after it unchanged (so every other line is
\* unchanged, the cursor's line is prefix + PLACEHOLDER + postfix, and
\* deleting the inserted marker gives the original text back); at
\* character 0 the cursor's line starts with the marker.
C8_InjectionSplicesMarker ==
  (pc # "idle" /\ CursorInText) =>
    /\ pc = "injected"
    /\ LineBreaks(injected) = LineBreaks(text)
    /\ Len(injected) = Len(text) + Len(PLACEHOLDER)
    /\ SubSeq(injected, 1, CursorOffset) = SubSeq(text, 1, CursorOffset)
    /\ SubSeq(injected, CursorOffset + 1, CursorOffset + Len(PLACEHOLDER)) = PLACEHOLDER
    /\ SubSeq(injected, CursorOffset + Len(PLACEHOLDER) + 1, Len(injected))
         = SubSeq(text, CursorOffset + 1, Len(text))
    /\ position.character = 0 =>
         SubSeq(injected, LineOffset(text, position.line) + 1,
                LineOffset(text, position.line) + Len(PLACEHOLDER)) = PLACEHOLDER

\* C8 witness: the marker spliced into the middle of the second line
C8_Witness ==
  /\ pc = "injected"
  /\ text = <<"a", NL, "a", "b">>
  /\ position = [line |-> 1, character |-> 1]
  /\ injected = <<"a", NL, "a">> \o PLACEHOLDER \o <<"b">>

\* n is an identifier holding the marker
Marked(n) == n.type = "Identifier" /\ includes(n.name, PLACEHOLDER)

\* n is root.<marker>: a member expression whose object is the bare
\* identifier root and whose property holds the marker
DotAfter(n, root) ==
  /\ n.type = "MemberExpression"
  /\ n.object.type = "Identifier"
  /\ n.object.name = root
  /\ Marked(n.property)

\* n is root.<something>.<marker> or root.getter(...).<marker>
DotAfterMemberOf(n, root, getter) ==
  /\ n.type = "MemberExpression"
  /\ Marked(n.property)
  /\ \/ /\ n.object.type = "MemberExpression"
        /\ n.object.object.type = "Identifier"
        /\ n.object.object.name = root
     \/ /\ n.object.type = "CallExpression"
        /\ n.object.callee.type = "MemberExpression"
        /\ n.object.callee.object.type = "Identifier"
        /\ n.object.callee.object.name = root
        /\ n.object.callee.property.type = "Identifier"
        /\ n.object.callee.property.name = getter

\* C4 as claimed: with the cursor directly after db. the returned state has
\* isCollectionSymbol and isCollectionName both true, and with the cursor
\* directly after sp. it has isStreamProcessorSymbol and
\* isStreamProcessorName both true.
C4_DotSetsSymbolAndName ==
  Finished =>
    /\ (\E n \in Tree : DotAfter(n, db)) =>
         returned.isCollectionSymbol /\ returned.isCollectionName
    /\ (\E n \in Tree : DotAfter(n, sp)) =>
         returned.isStreamProcessorSymbol /\ returned.isStreamProcessorName

\* C4 amended: with the cursor directly after db. the returned state has
\* isCollectionName true, and after sp. isStreamProcessorName true; the
\* symbol flags are not set by that member expression: isCollectionSymbol
\* is true only when the tree holds db.<something>.<marker> or
\* db.getCollection(...).<marker>, and isStreamProcessorSymbol only when it
\* holds sp.<something>.<marker> or sp.getProcessor(...).<marker>.
C4_DotSetsNameNotSymbol ==
  Finished =>
    /\ (\E n \in Tree : DotAfter(n, db)) => returned.isCollectionName
    /\ (\E n \in Tree : DotAfter(n, sp)) => returned.isStreamProcessorName
    /\ returned.isCollectionSymbol =>
         \E n \in Tree : DotAfterMemberOf(n, db, getCollection)
    /\ returned.isStreamProcessorSymbol =>
         \E n \in Tree : DotAfterMemberOf(n, sp, getProcessor)

\* C4 witness: db.<CURSOR> returns isCollectionName without
\* isCollectionSymbol
C4_Witness ==
  /\ Finished
  /\ text = LineDb
  /\ position = [line |-> 0, character |-> 3]
  /\ \E n \in Tree : DotAfter(n, db)
  /\ returned.isCollectionName
  /\ ~returned.isCollectionSymbol

\* n is <call>.<marker>, the call's callee a non-computed member expression
\* with the property name method
CursorAfterCall(n, method) ==
  /\ n.type = "MemberExpression"
  /\ Marked(n.property)
  /\ n.object.type = "CallExpression"
  /\ n.object.callee.type = "MemberExpression"
  /\ ~n.object.callee.computed
  /\ n.object.callee.property.type = "Identifier"
  /\ n.object.callee.property.name = method

\* C5: the returned isFindCursor is true exactly when the tree holds a
\* member expression whose property is an identifier holding the marker
\* and whose object is a call of a non-computed member named find; the
\* same for isAggregationCursor and aggregate.
C5_CursorFlagsIffCallShape ==
  Finished =>
    /\ returned.isFindCursor <=> \E n \in Tree : CursorAfterCall(n, find)
    /\ returned.isAggregationCursor <=> \E n \in Tree : CursorAfterCall(n, aggregate)

\* C5 witness: db.c.find({}).<CURSOR> returns isFindCursor and not
\* isAggregationCursor
C5_Witness ==
  /\ Finished
  /\ text = LineFind
  /\ position = [line |-> 0, character |-> Len(LineFind)]
  /\ \E n \in Tree : CursorAfterCall(n, find)
  /\ returned.isFindCursor
  /\ ~returned.isAggregationCursor

\* p is a property with an identifier key holding the marker
MarkedKey(p) == p.type = "ObjectProperty" /\ Marked(p.key)

\* the properties p of the object elements of the arrays of the tree whose
\* value is an object with the marker among its property keys: the stage
\* of { $match: { <CURSOR> } }
StagesAroundCursor ==
  {p \in Tree :
     /\ p.type = "ObjectProperty"
     /\ p.key.type = "Identifier"
     /\ p.value.type = "ObjectExpression"
     /\ \E j \in 1..Len(p.value.properties) : MarkedKey(p.value.properties[j])
     /\ \E a \in Tree :
          /\ a.type = "ArrayExpression"
          /\ \E i \in 1..Len(a.elements) :
               /\ a.elements[i].type = "ObjectExpression"
               /\ \E k \in 1..Len(a.elements[i].properties) :
                    a.elements[i].properties[k] = p}

\* the marker is a property key of an element of an array of the tree
CursorIsStageKey ==
  \E a \in Tree :
    /\ a.type = "ArrayExpression"
    /\ \E i \in 1..Len(a.elements) :
         /\ a.elements[i].type = "ObjectExpression"
         /\ \E k \in 1..Len(a.elements[i].properties) :
              MarkedKey(a.elements[i].properties[k])

\* C6 as claimed: for a pipeline element { $match: { <CURSOR> } } the
\* returned state has isStage true, stageOperator "$match" and isObjectKey
\* true.
C6_StageKeySetsIsStage ==
  Finished =>
    \A p \in StagesAroundCursor :
      /\ returned.isStage
      /\ returned.stageOperator = JSString(p.key.name)
      /\ returned.isObjectKey

\* C6 amended: for a pipeline element { $match: { <CURSOR> } } the returned
\* state has stageOperator "$match" and isObjectKey true; isStage is not
\* set by it: isStage is true only when the marker is a property key of
\* the array element itself, as in [{ <CURSOR> }].
C6_StageKeySetsOperatorNotIsStage ==
  Finished =>
    /\ \A p \in StagesAroundCursor :
         /\ returned.stageOperator = JSString(p.key.name)
         /\ returned.isObjectKey
    /\ returned.isStage => CursorIsStageKey

\* C6 witness: db.c.aggregate([{$match:{<CURSOR>}}]) returns stageOperator
\* "$match" and isObjectKey without isStage
C6_Witness ==
  /\ Finished
  /\ text = LinePipeline
  /\ position = [line |-> 0, character |-> 25]
  /\ StagesAroundCursor # {}
  /\ returned.stageOperator = JSString(<<"$", "m", "a", "t", "c", "h">>)
  /\ returned.isObjectKey
  /\ ~returned.isStage

\* n is the call root.getter(...)
NameCall(n, root, getter) ==
  /\ n.type = "CallExpression"
  /\ n.callee.type = "MemberExpression"
  /\ ~n.callee.computed
  /\ n.callee.object.type = "Identifier"
  /\ n.callee.object.name = root
  /\ n.callee.property.type = "Identifier"
  /\ n.callee.property.name = getter

\* the call n has exactly one argument, a string literal holding the
\* marker or a template literal of exactly one quasi holding the marker
NameArgument(n) ==
  /\ Len(n.arguments) = 1
  /\ \/ /\ n.arguments[1].type = "StringLiteral"
        /\ includes(n.arguments[1].value, PLACEHOLDER)
     \/ /\ n.arguments[1].type = "TemplateLiteral"
        /\ Len(n.arguments[1].quasis) = 1
        /\ includes(n.arguments[1].quasis[1].value.raw, PLACEHOLDER)

\* the traversal is about to enter a node
Entering == pc = "traverse" /\ next <= Len(traverse(ast))

\* the traversal has entered a node
Entered == pc = "traverse" /\ next > 1

\* C7: entering a call db.getCollection(arg) whose only argument is a
\* string literal, or a template literal of exactly one quasi, holding the
\* marker sets isCollectionName; sp.getProcessor(arg) under the same
\* conditions sets isStreamProcessorName; with any other number or kind of
\* arguments entering the call leaves both flags as they were.
C7_NameCallSetsNameFlag ==
  [][Entering =>
       LET n == traverse(ast)[next]
       IN  /\ (NameCall(n, db, getCollection) /\ NameArgument(n)) =>
                _state'.isCollectionName
           /\ (NameCall(n, sp, getProcessor) /\ NameArgument(n)) =>
                _state'.isStreamProcessorName
           /\ ( /\ NameCall(n, db, getCollection) \/ NameCall(n, sp, getProcessor)
                /\ ~NameArgument(n) ) =>
                /\ _state'.isCollectionName = _state.isCollectionName
                /\ _state'.isStreamProcessorName = _state.isStreamProcessorName]_vars

\* C7 witness: the call db.getCollection(<template of one quasi holding the
\* marker>) has been entered and isCollectionName is set
C7_Witness ==
  /\ Entered
  /\ LET n == traverse(ast)[next - 1]
     IN  /\ NameCall(n, db, getCollection)
         /\ NameArgument(n)
         /\ n.arguments[1].type = "TemplateLiteral"
  /\ _state.isCollectionName
  /\ ~_state.isStreamProcessorName

\* the enter callback run over nodes[from..to], in order
RECURSIVE EnterFrom(_, _, _, _, _)
EnterFrom(nodes, sel, from, to, st) ==
  IF from > to THEN st
  ELSE IF from = to THEN enter(nodes[from], st, sel)
  ELSE LET mid == (from + to) \div 2
           left == EnterFrom(nodes, sel, from, mid, st)
       IN  IF left = st THEN EnterFrom(nodes, sel, mid + 1, to, st)
           ELSE EnterFrom(nodes, sel, mid + 1, to, left)

\* what a new Visitor returns for the text t and the position p
FreshResult(t, p) ==
  LET nodes == traverse(parse(_handleTriggerCharacter(t, p).value))
      sel == [start |-> p, end |-> [line |-> 0, character |-> 0]]
  IN  EnterFrom(nodes, sel, 1, Len(nodes), _getDefaultsForCompletion)

\* C9: whatever requests a Visitor served before, the state a request
\* returns is the state a new Visitor returns for the same text and
\* position: it depends on that request's text and position alone.
C9_ResultDependsOnRequestAlone ==
  /\ pc = "done" => returned = FreshResult(text, position)
  /\ (pc = "traverse" /\ ~Entering) => _state = FreshResult(text, position)

\* C9 witness: a second request, on use("a");<CURSOR>, about to return a
\* state with none of what the first request, on db.<CURSOR>, returned
C9_Witness ==
  /\ requests = 2
  /\ pc = "traverse" /\ ~Entering
  /\ returned # <<>> /\ returned.isDbSymbol /\ returned.isCollectionName
  /\ text = LineUseA
  /\ position = [line |-> 0, character |-> Len(LineUseA)]
  /\ _state.databaseName = JSString(<<"a">>)
  /\ ~_state.isDbSymbol /\ ~_state.isCollectionName
  /\ _state = FreshResult(text, position)

\* the fields of the state that hold a name or null
NameFields == {"databaseName", "collectionName", "streamProcessorName", "stageOperator"}

\* C10: within one traversal no step takes a boolean flag from true back
\* to false, and none takes databaseName, collectionName,
\* streamProcessorName or stageOperator from a string back to null.
C10_TraversalIsMonotonic ==
  [][(pc = "traverse" /\ pc' = "traverse") =>
       \A f \in DOMAIN _state :
         /\ f \in DOMAIN _state'
         /\ IF f \in NameFields
              THEN _state[f] # JSNull => _state'[f] # JSNull
              ELSE _state[f] => _state'[f]]_vars

\* C10 witness: isCollectionName is set by db.getCollection("<CURSOR>") and
\* the traversal still has the callee to enter
C10_Witness ==
  /\ Entering
  /\ Entered
  /\ NameCall(traverse(ast)[next - 1], db, getCollection)
  /\ traverse(ast)[next].type = "MemberExpression"
  /\ _state.isCollectionName

\* C11 as claimed: whatever the shape of the state object, no step of the
\* traversal adds a field to it or removes one, and on a NamespaceState
\* only databaseName and collectionName can change.
C11_ChecksKeepTheShape ==
  [][Entering => DOMAIN _state' = DOMAIN _state]_vars

\* the step from before to after leaves every field as it was or sets it:
\* a flag to true, a name to a string
SetsOrLeaves(before, after) ==
  /\ DOMAIN after = DOMAIN before
  /\ \A f \in DOMAIN before :
       \/ after[f] = before[f]
       \/ IF f \in NameFields THEN after[f] # JSNull ELSE after[f] = TRUE

\* C12: entering a node never throws, whatever the node: the callee of a
\* call of any kind, no arguments, spread elements, object methods, holes
\* in arrays; the traversal goes on and the state is as it was or has
\* fields set.
C12_ChecksNeverThrow ==
  [][Entering => pc' = "traverse" /\ SetsOrLeaves(_state, _state')]_vars

\* C12 witness: an array with a hole before the object that holds the
\* marker has been entered, and isStage is set
C12_Witness ==
  /\ Entered
  /\ LET n == traverse(ast)[next - 1]
     IN  /\ n.type = "ArrayExpression"
         /\ \E i \in 1..Len(n.elements) : n.elements[i] = Hole
  /\ _state.isStage

\* n is a call of the identifier use
UseCall(n) ==
  /\ n.type = "CallExpression"
  /\ n.callee.type = "Identifier"
  /\ n.callee.name = use

\* C13: the returned isUseCallExpression is true exactly when the tree
\* holds a call of the identifier use with exactly one argument, a string
\* literal holding the marker or a template literal of exactly one quasi
\* whose raw text holds the marker.
C13_UseCallFlagIffShape ==
  Finished =>
    (returned.isUseCallExpression <=>
       \E n \in Tree : UseCall(n) /\ NameArgument(n))

\* C13 witness: use(<template of one quasi holding the marker>) returns
\* isUseCallExpression
C13_Witness ==
  /\ Finished
  /\ text = LineUseTemplate
  /\ \E n \in Tree :
       UseCall(n) /\ NameArgument(n) /\ n.arguments[1].type = "TemplateLiteral"
  /\ returned.isUseCallExpression

\* e is a member expression whose object is the bare identifier root
MemberOf(e, root) ==
  /\ e.type = "MemberExpression"
  /\ e.object.type = "Identifier"
  /\ e.object.name = root

\* C14: entering an expression statement sets isGlobalSymbol exactly when
\* its expression is a bare identifier holding the marker, isDbSymbol
\* exactly when its expression is a member expression whose object is the
\* bare identifier db, and isSpSymbol the same for sp; a statement of any
\* other shape leaves the three as they were.
C14_StatementSetsSymbolFlags ==
  [][(Entering /\ traverse(ast)[next].type = "ExpressionStatement") =>
       LET e == traverse(ast)[next].expression
       IN  /\ _state'.isGlobalSymbol <=> (_state.isGlobalSymbol \/ Marked(e))
           /\ _state'.isDbSymbol <=> (_state.isDbSymbol \/ MemberOf(e, db))
           /\ _state'.isSpSymbol <=> (_state.isSpSymbol \/ MemberOf(e, sp))]_vars

\* C14 witness: the statement db.c.<CURSOR>, whose object is itself a
\* member expression, has been entered and none of the three flags is set
C14_Witness ==
  /\ Entered
  /\ text = LineDbC
  /\ LET n == traverse(ast)[next - 1]
     IN  /\ n.type = "ExpressionStatement"
         /\ n.expression.type = "MemberExpression"
         /\ MemberOf(n.expression.object, db)
         /\ Marked(n.expression.property)
  /\ ~_state.isGlobalSymbol /\ ~_state.isDbSymbol /\ ~_state.isSpSymbol

\* e is root.<name> or root["name"], the object of a longer member expression
NamedMember(e, root) ==
  /\ MemberOf(e, root)
  /\ e.property.type \in {"Identifier", "StringLiteral"}

\* the name that NamedMember(e, root) carries
MemberName(e) ==
  IF e.property.type = "Identifier" THEN e.property.name ELSE e.property.value

\* e is root.getter("name"), a call with exactly one string argument
NamedCall(e, root, getter) ==
  /\ e.type = "CallExpression"
  /\ MemberOf(e.callee, root)
  /\ e.callee.property.type = "Identifier"
  /\ e.callee.property.name = getter
  /\ Len(e.arguments) = 1
  /\ e.arguments[1].type = "StringLiteral"

\* the value a name field holds once a member expression on e is entered
NameAfter(e, root, getter, old) ==
  IF NamedMember(e, root) THEN JSString(MemberName(e))
  ELSE IF NamedCall(e, root, getter) THEN JSString(e.arguments[1].value)
  ELSE old

\* C15: entering a member expression whose object is db.<name> (the name an
\* identifier or a string literal) or db.getCollection("name") with exactly
\* one string argument sets collectionName to the name; the same holds for
\* sp, getProcessor and streamProcessorName; a member expression of any
\* other shape leaves the field alone, so a db-rooted one never changes
\* streamProcessorName and an sp-rooted one never changes collectionName.
C15_MemberObjectNamesTheField ==
  [][(Entering /\ traverse(ast)[next].type = "MemberExpression") =>
       LET e == traverse(ast)[next].object
       IN  /\ _state'.collectionName =
                NameAfter(e, db, getCollection, _state.collectionName)
           /\ _state'.streamProcessorName =
                NameAfter(e, sp, getProcessor, _state.streamProcessorName)]_vars

\* C15 witness: the member expression on db.getCollection("c") has been
\* entered, collectionName is "c" and streamProcessorName is still null
C15_Witness ==
  /\ Entered
  /\ LET n == traverse(ast)[next - 1]
     IN  /\ n.type = "MemberExpression"
         /\ NamedCall(n.object, db, getCollection)
         /\ n.object.arguments[1].value = <<"c">>
  /\ _state.collectionName = JSString(<<"c">>)
  /\ _state.streamProcessorName = JSNull

\* p is a property whose value is an identifier holding the marker
MarkedIdentifierValue(p) == p.type = "ObjectProperty" /\ Marked(p.value)

\* p is a property whose value is a string literal, or a template literal of
\* a single quasi, holding the marker
MarkedTextValue(p) ==
  /\ p.type = "ObjectProperty"
  /\ \/ /\ p.value.type = "StringLiteral"
        /\ includes(p.value.value, PLACEHOLDER)
     \/ /\ p.value.type = "TemplateLiteral"
        /\ Len(p.value.quasis) = 1
        /\ includes(p.value.quasis[1].value.raw, PLACEHOLDER)

\* the properties of the object expression o
PropertiesOf(o) == {o.properties[i] : i \in 1..Len(o.properties)}

\* C16: entering an object expression sets isObjectKey exactly when some
\* property of it, the first or a later one, has an identifier key holding
\* the marker, isIdentifierObjectValue exactly when some property has an
\* identifier value holding it, and isTextObjectValue exactly when some
\* property has a string literal or single-quasi template value holding it.
C16_ObjectFlagsOverAllProperties ==
  [][(Entering /\ traverse(ast)[next].type = "ObjectExpression") =>
       LET o == traverse(ast)[next]
       IN  /\ _state'.isObjectKey <=>
                (_state.isObjectKey \/ (\E p \in PropertiesOf(o) : MarkedKey(p)))
           /\ _state'.isIdentifierObjectValue <=>
                (_state.isIdentifierObjectValue \/ (\E p \in PropertiesOf(o) : MarkedIdentifierValue(p)))
           /\ _state'.isTextObjectValue <=>
                (_state.isTextObjectValue \/ (\E p \in PropertiesOf(o) : MarkedTextValue(p)))]_vars

\* C16 witness: an object whose second property, not its first, has the
\* marker in its key has been entered, and only isObjectKey is set
C16_Witness ==
  /\ Entered
  /\ LET o == traverse(ast)[next - 1]
     IN  /\ o.type = "ObjectExpression"
         /\ Len(o.properties) = 3
         /\ ~MarkedKey(o.properties[1])
         /\ MarkedKey(o.properties[2])
  /\ _state.isObjectKey
  /\ ~_state.isIdentifierObjectValue
  /\ ~_state.isTextObjectValue

\* n is a call of a member named aggregate
AggregateCall(n) ==
  /\ n.type = "CallExpression"
  /\ n.callee.type = "MemberExpression"
  /\ n.callee.property.type = "Identifier"
  /\ n.callee.property.name = aggregate

\* C17: the returned isStage is true exactly when some array expression of
\* the tree, an argument of aggregate or not, has an object expression
\* among its elements with a property whose key is an identifier holding
\* the marker; a marker deeper inside such an element does not set it.
C17_IsStageIffElementKey ==
  Finished => (returned.isStage <=> CursorIsStageKey)

\* C17 witness: the text has no call of aggregate, the marker is a key of
\* the second element of an array, and isStage is returned true
C17_Witness ==
  /\ Finished
  /\ \A n \in Tree : ~AggregateCall(n)
  /\ \E a \in Tree :
       /\ a.type = "ArrayExpression"
       /\ Len(a.elements) = 2
       /\ a.elements[2].type = "ObjectExpression"
       /\ \E k \in 1..Len(a.elements[2].properties) :
            MarkedKey(a.elements[2].properties[k])
  /\ returned.isStage

\* the properties { $op: { ... } } of the object elements of the array a:
\* an identifier key and an object expression as value
OperatorProperties(a) ==
  {p \in UNION {PropertiesOf(a.elements[i]) :
                  i \in {j \in 1..Len(a.elements) : a.elements[j].type = "ObjectExpression"}} :
     /\ p.type = "ObjectProperty"
     /\ p.key.type = "Identifier"
     /\ p.value.type = "ObjectExpression"}

\* the marker is in an identifier (a key or a value) or in a string inside v
MarkerInside(v) ==
  \E n \in NodesOf(v) :
    \/ Marked(n)
    \/ n.type = "StringLiteral" /\ includes(n.value, PLACEHOLDER)

\* the marker is in the identifier key of a property inside v, at any depth
MarkedKeyInside(v) == \E n \in NodesOf(v) : MarkedKey(n)

\* C18 as claimed: entering an array with an element { $op: { ... } } sets
\* stageOperator to "$op" whenever the marker is anywhere inside the inner
\* object, at any depth, in a property key, an identifier value or a string
\* value.
C18_MarkerAnywhereSetsOperator ==
  [][(Entering /\ traverse(ast)[next].type = "ArrayExpression") =>
       \A p \in OperatorProperties(traverse(ast)[next]) :
         MarkerInside(p.value) => _state'.stageOperator = JSString(p.key.name)]_vars

\* C18 amended: entering an array with an element { $op: { ... } } sets
\* stageOperator to "$op" whenever the marker is in the identifier key of a
\* property inside the inner object, at any depth; a marker that is only in
\* an identifier value or in a string value leaves stageOperator as it was.
C18_MarkedKeySetsOperator ==
  [][(Entering /\ traverse(ast)[next].type = "ArrayExpression") =>
       LET stages == OperatorProperties(traverse(ast)[next])
       IN  /\ \A p \in stages :
                MarkedKeyInside(p.value) => _state'.stageOperator = JSString(p.key.name)
           /\ (\A p \in stages : ~MarkedKeyInside(p.value)) =>
                _state'.stageOperator = _state.stageOperator]_vars

\* C18 witness: the array of [{$m:{c:{<CURSOR>}}}] has been entered, the
\* marker a key two objects deep, and stageOperator is "$m"
C18_Witness ==
  /\ Entered
  /\ text = LineOperatorDeep
  /\ LET a == traverse(ast)[next - 1]
     IN  /\ a.type = "ArrayExpression"
         /\ \E p \in OperatorProperties(a) :
              /\ MarkedKeyInside(p.value)
              /\ \A k \in 1..Len(p.value.properties) : ~MarkedKey(p.value.properties[k])
  /\ _state.stageOperator = JSString(<<"$", "m">>)

\* a selection helper has answered
Answered == pc = "answered"

\* number of characters of the parsed text before the parser's location loc
OffsetOf(loc) ==
  CHOOSE o \in 0..Len(injected) : PosTable(injected)[o + 1] = loc

\* the editor's position of the parser's location loc, counted in the text:
\* the line breaks before it and the characters since the last of them
EditorPosition(loc) ==
  LET o == OffsetOf(loc)
      l == Cardinality({j \in 1..o : injected[j] = NL})
  IN  [line |-> l, character |-> o - LineOffset(injected, l)]

\* the editor position p is before q
Before(p, q) ==
  \/ p.line < q.line
  \/ p.line = q.line /\ p.character < q.character

\* C19: every helper compares the node's line as the editor counts it, the
\* parser's 1-based line minus 1, with the selection's 0-based line, and
\* the node's column as it is with the selection's character: a parent is
\* around the selection exactly when it starts before the selection's start
\* and ends after its end, a property key or a declared identifier is
\* before the selection exactly when it ends before the selection's start,
\* a node within the selection starts on the selection's first line and
\* ends on its last, and databaseName is set exactly when a use(<string>)
\* call ends at or before the selection's start.
C19_LinesAreAdjusted ==
  /\ Answered =>
       LET n == returned.node
           sel == _selection
       IN  /\ returned.helper = "_isParentAroundSelection" =>
                (returned.value <=>
                   /\ Before(EditorPosition(n.loc.start), sel.start)
                   /\ Before(sel.end, EditorPosition(n.loc.end)))
           /\ returned.helper = "_isObjectPropBeforeSelection" =>
                (returned.value <=> Before(EditorPosition(n.key.loc.end), sel.start))
           /\ returned.helper = "_isVariableIdentifierBeforeSelection" =>
                (returned.value <=> Before(EditorPosition(n.id.loc.end), sel.start))
           /\ returned.helper = "_isWithinSelection" =>
                (returned.value =>
                   /\ EditorPosition(n.loc.start).line = sel.start.line
                   /\ EditorPosition(n.loc.end).line = sel.end.line)
  /\ Finished =>
       (_state.databaseName # JSNull <=>
          \E n \in Tree :
            /\ IsUseCall(n)
            /\ ~Before(_selection.start, EditorPosition(n.loc.end)))

\* C19 witness: a property key on the parser's line 2 is found before a
\* selection that starts later on the editor's line 1
C19_Witness ==
  /\ Answered
  /\ returned.helper = "_isObjectPropBeforeSelection"
  /\ returned.node.key.loc.end.line = 2
  /\ _selection.start.line = 1
  /\ returned.value

\* the node n starts and ends inside the selection sel, boundaries included
InsideSelection(n, sel) ==
  /\ n.loc.start.line - 1 = sel.start.line
  /\ n.loc.start.column >= sel.start.character
  /\ n.loc.end.line - 1 = sel.end.line
  /\ n.loc.end.column <= sel.end.character

\* C20: _isWithinSelection(node) returns true for every node that starts
\* and ends inside the selection, boundaries included, a node that starts
\* at column 0 in a selection that starts at character 0 among them.
C20_WithinSelectionHoldsInside ==
  (Answered /\ returned.helper = "_isWithinSelection") =>
    (InsideSelection(returned.node, _selection) => returned.value)

\* the helper was given a node or a selection with a part left out
IncompleteInput ==
  \/ ~Present(_selection, "start")
  \/ ~Present(_selection, "end")
  \/ \E n \in {returned.node} \cup
              (IF returned.helper = "_isObjectPropBeforeSelection"
                 THEN {returned.node.key}
               ELSE IF returned.helper = "_isVariableIdentifierBeforeSelection"
                 THEN {returned.node.id}
               ELSE {}) :
       Present(n, "loc") => ~(Present(n.loc, "start") /\ Present(n.loc, "end"))

\* C21: none of the four selection helpers throws on incomplete input: on
\* a node without loc, or with a loc that lacks its start or end, and on a
\* selection without its start or end, the helper returns and no exception
\* leaves it.
C21_HelpersNeverThrow ==
  (Answered /\ IncompleteInput) => ~returned.threw

\* offset o of the text t is inside or next to a word: the offsets where
\* the word starts and ends
WordStart(t, o) ==
  CHOOSE i \in 0..o :
    /\ \A j \in (i + 1)..o : t[j] \in IdChars
    /\ i = 0 \/ t[i] \notin IdChars

WordEnd(t, o) ==
  CHOOSE i \in o..Len(t) :
    /\ \A j \in (o + 1)..i : t[j] \in IdChars
    /\ i = Len(t) \/ t[i + 1] \notin IdChars

\* the text without the word around the cursor, and the cursor where the
\* word was
BareText ==
  SubSeq(text, 1, WordStart(text, CursorOffset))
    \o SubSeq(text, WordEnd(text, CursorOffset) + 1, Len(text))

BarePosition ==
  [line |-> position.line,
   character |-> WordStart(text, CursorOffset) - LineOffset(text, position.line)]

\* the fields of the state that are flags or the stage operator, and those
\* of them that only a check for the marker sets
Flags ==
  DOMAIN _getDefaultsForCompletion \ {"databaseName", "collectionName", "streamProcessorName"}

MarkerFlags == Flags \ {"isDbSymbol", "isSpSymbol"}

\* C22: the marker is looked for by containment: a request whose cursor is
\* inside or next to a typed word, so that the marker is joined to a prefix
\* and/or a suffix, returns the flags of the request on the text without
\* that word, the bare marker in its place; and a text parsed without any
\* marker, whatever identifiers and strings it holds, sets none of the flags
\* that depend on the marker.
C22_MarkerIsContained ==
  /\ (pc = "done" /\ CursorInText /\ position.character <= LineLength(text, position.line)
        /\ injected # text) =>
       \A f \in Flags : returned[f] = FreshResult(BareText, BarePosition)[f]
  /\ (pc = "done" /\ injected = text) =>
       \A f \in MarkerFlags : returned[f] = _getDefaultsForCompletion[f]

\* C22 witness: the cursor between the a and the b of db.ab: the marker has
\* a prefix and a suffix, and the request returns isCollectionName as the
\* request on db.<CURSOR> does
C22_Witness ==
  /\ pc = "done"
  /\ text = LineTypedName
  /\ position = [line |-> 0, character |-> 4]
  /\ BareText = LineDb
  /\ returned.isCollectionName
  /\ FreshResult(BareText, BarePosition).isCollectionName

\* the boolean fields of the state
BooleanFlags == Flags \ {"stageOperator"}

\* C23: the flag families do not exclude each other: no call of the enter
\* callback takes a flag that is true back to false, whatever other flag
\* it sets, so that a text with a db statement before db.c.<CURSOR> ends
\* with isDbSymbol and isCollectionSymbol both true.
C23_NoFlagClearsAnother ==
  [][(pc = "traverse" /\ pc' = "traverse") =>
       \A f \in BooleanFlags :
         \A g \in BooleanFlags \ {f} :
           (_state[f] /\ ~_state[g] /\ _state'[g]) => _state'[f]]_vars

\* C23 witness: db.x; and db.c.<CURSOR>: the request returns isDbSymbol
\* and isCollectionSymbol, both true
C23_Witness ==
  /\ Finished
  /\ text = join(<<LineDbX, LineDbC>>)
  /\ position = [line |-> 1, character |-> Len(LineDbC)]
  /\ returned.isDbSymbol
  /\ returned.isCollectionSymbol

\* the step is a call of onViewMoreCollectionDocuments
ViewMoreCalled ==
  \/ resolved' # resolved
  \/ fired' # fired
  \/ /\ Len(operations') = Len(operations)
     /\ \E id \in DOMAIN operations :
          operations'[id].documentLimit # operations[id].documentLimit

Writers(root, getter) ==
  {i \in 1..Len(traverse(ast)) :
     /\ traverse(ast)[i].type = "MemberExpression"
     /\ \/ NamedMember(traverse(ast)[i].object, root)
        \/ NamedCall(traverse(ast)[i].object, root, getter)}

\* the name the last of them carries, or null when there is none
LastWritten(root, getter) ==
  IF Writers(root, getter) = {} THEN JSNull
  ELSE LET last == CHOOSE i \in Writers(root, getter) :
                     \A j \in Writers(root, getter) : j <= i
       IN  NameAfter(traverse(ast)[last].object, root, getter, JSNull)

\* C25: after the traversal collectionName is the name of the last member
\* expression, in enter order, whose object is db.<name>, db["name"] or
\* db.getCollection("name"), and streamProcessorName the same for sp and
\* getProcessor, wherever the cursor is: a name after the cursor replaces
\* the name of the expression that holds the marker.
C25_LastWriterWins ==
  Finished =>
    /\ returned.collectionName = LastWritten(db, getCollection)
    /\ returned.streamProcessorName = LastWritten(sp, getProcessor)

\* C25 witness: db.c.<CURSOR> on the first line and db.b.x; on the second:
\* the request returns the collection name "b"
C25_Witness ==
  /\ Finished
  /\ text = join(<<LineDbC, LineDbBX>>)
  /\ position = [line |-> 0, character |-> Len(LineDbC)]
  /\ returned.isCollectionSymbol
  /\ returned.collectionName = JSString(<<"b">>)

\* the text has a statement whose expression is a member of root
HasStatementOf(root) ==
  \E n \in Tree : n.type = "ExpressionStatement" /\ MemberOf(n.expression, root)

\* C26: isDbSymbol and isSpSymbol do not depend on the marker: a text with
\* a statement db.<x> anywhere returns isDbSymbol, and one with a statement
\* sp.<x> returns isSpSymbol, wherever the cursor is; with the cursor alone
\* on another line the request returns isGlobalSymbol as well.
C26_SymbolFlagsIgnoreCursor ==
  Finished =>
    /\ HasStatementOf(db) => returned.isDbSymbol
    /\ HasStatementOf(sp) => returned.isSpSymbol
    /\ (\E n \in Tree : n.type = "ExpressionStatement" /\ Marked(n.expression)) =>
         returned.isGlobalSymbol

\* C26 witness: sp.x; on the first line and the cursor alone on the second:
\* the request returns isGlobalSymbol and isSpSymbol, both true
C26_Witness ==
  /\ Finished
  /\ text = join(<<LineSpX, <<>>>>)
  /\ position = [line |-> 1, character |-> 0]
  /\ returned.isGlobalSymbol
  /\ returned.isSpSymbol
  /\ ~returned.isDbSymbol

\* the text t with db written wherever it has sp
Mirrored(t) ==
  [i \in 1..Len(t) |->
     IF i < Len(t) /\ t[i] = "s" /\ t[i + 1] = "p" THEN "d"
     ELSE IF i > 1 /\ t[i - 1] = "s" /\ t[i] = "p" THEN "b"
     ELSE t[i]]

\* C27: whenever a request on a text with sp.<CURSOR> returns
\* isStreamProcessorName and isSpSymbol, the request on the same text with
\* db in the place of sp returns isCollectionName and isDbSymbol, also when
\* the member expression is the argument of a call.
C27_DbMirrorsSp ==
  (Finished /\ returned.isStreamProcessorName /\ returned.isSpSymbol) =>
    /\ FreshResult(Mirrored(text), position).isCollectionName
    /\ FreshResult(Mirrored(text), position).isDbSymbol

\* the arrays of the text that are inside no other array
OutermostArrays ==
  {a \in Tree :
     /\ a.type = "ArrayExpression"
     /\ \A b \in Tree : (b.type = "ArrayExpression" /\ b # a) => a \notin NodesOf(b)}

\* C28: after the traversal stageOperator is the key of the stage, the
\* property of an element of the outermost array, whose value holds the
\* marked key; an array inside the stage's value, as in
\* [{m: {o: [{a: {<CURSOR>}}]}}], does not put the key of its own element in
\* its place.
C28_StageOperatorIsTheStage ==
  Finished =>
    \A a \in OutermostArrays :
      \A p \in OperatorProperties(a) :
        MarkedKeyInside(p.value) => returned.stageOperator = JSString(p.key.name)

\* the properties of the object expressions of the text
ObjectProperties ==
  UNION {PropertiesOf(o) : o \in {n \in Tree : n.type = "ObjectExpression"}}

\* C29 as claimed: a marker that is the only content of an object, a
\* shorthand property, sets isObjectKey and not isIdentifierObjectValue.
C29_ShorthandIsKeyOnly ==
  (Finished /\ \E p \in ObjectProperties : MarkedKey(p) /\ p.shorthand) =>
    (returned.isObjectKey /\ ~returned.isIdentifierObjectValue)

\* C29 amended: isObjectKey is returned exactly when a property of an
\* object has an identifier key that holds the marker, and
\* isIdentifierObjectValue exactly when one has an identifier value that
\* holds the marker; the marker alone in an object is a shorthand property,
\* the key and the value at once, and sets both flags.
C29_ShorthandIsKeyAndValue ==
  Finished =>
    /\ returned.isObjectKey <=> \E p \in ObjectProperties : MarkedKey(p)
    /\ returned.isIdentifierObjectValue <=>
         \E p \in ObjectProperties : MarkedIdentifierValue(p)
    /\ \A p \in ObjectProperties :
         (MarkedKey(p) /\ p.shorthand) =>
           (returned.isObjectKey /\ returned.isIdentifierObjectValue)

\* C29 witness: f({<CURSOR>}) has returned both flags
C29_Witness ==
  /\ Finished
  /\ text = LineShorthand
  /\ position = [line |-> 0, character |-> 3]
  /\ \E p \in ObjectProperties : MarkedKey(p) /\ p.shorthand
  /\ returned.isObjectKey
  /\ returned.isIdentifierObjectValue

\* C30: the object a request returned is not modified by what the Visitor
\* does later: no call of the enter callback, in a later request or in a
\* later call of parseAST alone, changes a field of it.
C30_ReturnedStateIsKept ==
  [][(pc = "traverse" /\ pc' = "traverse" /\ returned # <<>>) =>
       returned' = returned]_vars

====
